---- MODULE Spec2Model ----
(***************************************************************************)
(* Model of the leetcode-fetch download pipeline (download.js):            *)
(*   - the batch scheduler of main() with its downloadWorker closures and  *)
(*     the progress file .download-progress.json,                          *)
(*   - retryAsync,                                                         *)
(*   - the image rewriters downloadImageFromMarkdown / processHtmlBody,    *)
(*   - downloadProblem step by step, followed by its downloadWorker.       *)
(* The specifications share the module: Spec (batch runs), SpecRetry (one  *)
(* call of retryAsync), SpecMedia (one call of an image rewriter),         *)
(* SpecItem (one item through downloadProblem and downloadWorker) and      *)
(* SpecCredential (batch runs during which the session file may be gone).  *)
(***************************************************************************)
EXTENDS Integers, Sequences, FiniteSets, TLC

\* ------------------------------------------------------------------ bounds
MaxItems == 2      \* longest catalog returned by listProblems
MaxConc == 2       \* largest --concurrency value tried
MaxAttempts == 4   \* largest `retries` argument given to retryAsync
MaxDelay == 3      \* largest `delay` argument given to retryAsync (ms)
MaxRefs == 3       \* most image references in one document
NumUrls == 2       \* distinct image URLs
MaxLangs == 3      \* most codeSnippets (languages) of one problem
MaxTotal == 250    \* largest catalog listProblems pages through
MaxDoc == 4        \* longest document given to convertHtmlToMarkdown
MaxArg == 2        \* most characters of the value given to --concurrency

\* --------------------------------------------------------- program constants
MAX_RETRIES == 3
RETRY_DELAY == 1000

VARIABLES
    \* inputs of a batch run
    problems,            \* listProblems(): sequence of [id, locked, remote]
    CONFIG,              \* parseArgs(): flags and concurrency
    isPremiumUser,       \* getUser().paid
    \* the durable progress file
    disk,
    \* main()'s locals, shared with the downloadWorker closures
    run, pc, i, problemsToDownload,
    completedProblems, failedProblems,
    completed, failed, skipped, alreadyDownloaded,
    shouldStop,
    \* one downloadWorker per catalog position
    wstate, snap, verdict,
    \* history of the run
    fetched, loadedCompleted, loadedFailed, prevCompleted, prevDisk,
    \* one call of retryAsync(fn, retries, delay)
    retries, delay,      \* its arguments
    ri,                  \* its loop variable i
    rpc,                 \* "idle", "loop", "pending", "sleeping", "returned", "thrown"
    calls,               \* invocations of fn so far
    log,                 \* the calls of fn and the sleeps, in order
    outcome,             \* what the call returned or threw
    \* one call of downloadImageFromMarkdown / processHtmlBody
    mkind,               \* "markdown" or "html"
    doc,                 \* the image references of the document, in order
    mpc,                 \* "idle", "scan", "download", "done"
    mpos,                \* the reference the regex loop is at
    imageMap, imageIndex, hasImages,
    passes,              \* calls of retryAsync per URL
    gaveUp,              \* references whose retryAsync call threw (catch entered)
    out,                 \* the references of the rewritten document
    \* one item through downloadProblem(problem, outputFolder, CONFIG)
    session,             \* getSessionCookies() finds the session file
    problem,             \* [id, locked]
    paid,                \* getUser().paid
    itemConfig,          \* CONFIG of the call
    answers,             \* what the API answers for this problem
    dpc,                 \* "idle", "fetch", "official", "langs", "returned",
                         \* "thrown", "evaluated"
    lang,                \* position of the language loop in codeSnippets
    downloadStatus,
    thrown,              \* message of the error downloadProblem threw, or ""
    itemVerdict,         \* "none", "complete", "partial", "auth", "exception"
    issued,              \* the operations downloadProblem has carried out, in order
    statusIcon,          \* marker of the status line printed: "none", "ok", "warning"
    \* one query function called through retryAsync
    qkind,               \* "none", "detail", "official", "community"
    slug,                \* problemSlug is not empty
    cookies,             \* getSessionCookies() is not null
    qpc,                 \* "idle", "inflight", "settled"
    qvalue,              \* what the last call of the function returned or threw
    served,              \* calls of the function that have been entered
    requests,            \* axios.post calls issued
    failures,            \* axios.post calls that failed (network error)
    \* listProblems
    catalogSize,         \* questions the server holds
    pageCap,             \* most questions the server puts in one response
    skip,
    total,
    listed,              \* `problems`: the questions pushed so far, in order
    pages,               \* the skip values of the requests issued, in order
    lpc,                 \* "idle", "loop", "returned", "thrown"
    listError,           \* message of the error listProblems threw, or ""
    \* convertHtmlToMarkdown
    html,                \* the argument
    markdown,            \* htmlWithPlaceholders, then markdown
    preBlocks,
    cpc,                 \* "idle", "extract", "rewrite", "strip", "reinsert",
                         \* "returned", "thrown"
    \* parseArgs
    concurrencyArg,      \* the --concurrency option: whether given, and its value
    \* main() with CONFIG.problemId
    single,              \* position, answers received and status of the branch
    tree,                \* paths below the output folder the branch wrote
    \* login()
    sessionFile,         \* ~/.lc/leetcode/user.json
    login,               \* position, cookie, user data and return value
    \* startOAuthServer()
    oauth,               \* server, timeout, promise, pending timers and
                         \* close callbacks, requests handled
    \* files of the output folder beside the progress file
    errorLog             \* lines of downloads/error.log

batchVars == <<problems, CONFIG, isPremiumUser, disk, run, pc, i,
               problemsToDownload, completedProblems, failedProblems,
               completed, failed, skipped, alreadyDownloaded, shouldStop,
               wstate, snap, verdict, fetched, loadedCompleted, loadedFailed,
               prevCompleted, prevDisk>>

retryVars == <<retries, delay, ri, rpc, calls, log, outcome>>

mediaVars == <<mkind, doc, mpc, mpos, imageMap, imageIndex, hasImages, passes,
              gaveUp, out>>

itemVars == <<session, problem, paid, itemConfig, answers, dpc, lang,
              downloadStatus, thrown, itemVerdict, issued, statusIcon>>

queryVars == <<qkind, slug, cookies, qpc, qvalue, served, requests, failures>>

\* what a batch run leaves alone: the functions modelled on their own and the
\* files no statement of download.js writes
listVars == <<catalogSize, pageCap, skip, total, listed, pages, lpc,
              listError>>

convertVars == <<html, markdown, preBlocks, cpc>>

\* the command line and the commands modelled further on
otherVars == <<concurrencyArg, single, tree, sessionFile, login, oauth>>

auxVars == <<queryVars, listVars, convertVars, otherVars, errorLog>>
besideQuery == <<listVars, convertVars, otherVars, errorLog>>
besideList == <<queryVars, convertVars, otherVars, errorLog>>
besideConvert == <<queryVars, listVars, otherVars, errorLog>>

vars == <<batchVars, retryVars, mediaVars, itemVars, auxVars>>

Ids == 1..MaxItems
Min(a, b) == IF a < b THEN a ELSE b

\* ---------------------------------------------------------------- remote side
\* What the LeetCode API answers for one problem, as far as downloadProblem
\* looks at it.
\*   question : data.data.question is present
\*   content  : question.content is non-empty
\*   nLangs   : number of codeSnippets
\*   nCode    : snippets that carry code
\*   official : getOfficialSolution returns a solution
\*   nSuccess, nNoSol : languages whose getDiscussSolution status is 'success'
\*              / 'no_solution' (the remaining ones are 'error')
\*   session  : getSessionCookies() finds the session file when the detail
\*              fetch is issued
Profiles == {"complete", "partial", "notfound", "expired"}
NoSession == "nosession"

RemoteOf(name) ==
    CASE name = "complete" -> [session |-> TRUE, question |-> TRUE, content |-> TRUE,
                               nLangs |-> 1, nCode |-> 1, official |-> TRUE,
                               nSuccess |-> 1, nNoSol |-> 0, transcodes |-> TRUE]
      [] name = "partial"  -> [session |-> TRUE, question |-> TRUE, content |-> TRUE,
                               nLangs |-> 1, nCode |-> 1, official |-> TRUE,
                               nSuccess |-> 0, nNoSol |-> 0, transcodes |-> TRUE]
      [] name = "notfound" -> [session |-> TRUE, question |-> FALSE, content |-> FALSE,
                               nLangs |-> 0, nCode |-> 0, official |-> FALSE,
                               nSuccess |-> 0, nNoSol |-> 0, transcodes |-> TRUE]
      [] name = "expired"  -> [session |-> TRUE, question |-> TRUE, content |-> FALSE,
                               nLangs |-> 0, nCode |-> 0, official |-> FALSE,
                               nSuccess |-> 0, nNoSol |-> 0, transcodes |-> TRUE]
      [] name = NoSession  -> [session |-> FALSE, question |-> FALSE, content |-> FALSE,
                               nLangs |-> 0, nCode |-> 0, official |-> FALSE,
                               nSuccess |-> 0, nNoSol |-> 0, transcodes |-> TRUE]

\* ------------------------------------------------------------ downloadProblem
SESSION_EXPIRED == "SESSION_EXPIRED: "
NO_COOKIES == "No session cookies found. Please login first."
\* what convertHtmlToMarkdown throws on <pre><code></code></pre> (line 1108)
TYPE_ERROR == "Cannot read properties of undefined (reading 'replace')"
Throw(msg) == [kind |-> "throw", message |-> msg]

\* lines 835-846: the detail has no content
EmptyContent_notFound(pr, premium) == Throw("Failed to fetch problem")
EmptyContent(pr, premium) ==
    IF pr.locked /\ premium THEN Throw(SESSION_EXPIRED)
    ELSE IF pr.locked THEN Throw("Premium problem requires premium account")
    ELSE Throw(SESSION_EXPIRED)

downloadProblem(pr, r, cfg, premium) ==
    IF ~r.session THEN Throw(NO_COOKIES)
    ELSE IF ~r.question THEN Throw("Failed to fetch problem")
    ELSE IF ~r.content THEN EmptyContent(pr, premium)
    ELSE IF ~r.transcodes THEN Throw(TYPE_ERROR)
    ELSE
        [kind |-> "status",
         description |-> [success |-> TRUE],
         templates |-> [count |-> IF cfg.fetchTemplates THEN r.nCode ELSE 0,
                        total |-> r.nLangs],
         officialSolution |->
             IF cfg.fetchOfficialSolution
             THEN IF r.official THEN [count |-> 1, total |-> 1]
                                ELSE [count |-> 0, total |-> 0]
             ELSE [count |-> 0, total |-> 0],
         communitySolutions |->
             IF cfg.fetchSolutions
             THEN [count |-> r.nSuccess, total |-> r.nLangs - r.nNoSol]
             ELSE [count |-> 0, total |-> r.nLangs]]

\* ------------------------------------------------------ displayDownloadStatus
\* lines 788-802: allSuccess, and the marker it selects
allSuccess(status) ==
    /\ status.description.success
    /\ status.templates.count = status.templates.total
    /\ status.officialSolution.count = status.officialSolution.total
    /\ status.communitySolutions.count = status.communitySolutions.total

displayDownloadStatus(status) == IF allSuccess(status) THEN "ok" ELSE "warning"

\* --------------------------------------------------------------- downloadWorker
isFullyComplete_allKinds(status, cfg) ==
    /\ status.description.success
    /\ status.templates.count = status.templates.total
    /\ status.officialSolution.count = status.officialSolution.total
    /\ status.communitySolutions.count = status.communitySolutions.total

isFullyComplete(status, cfg) ==
    /\ status.description.success
    /\ (~cfg.fetchTemplates \/ status.templates.count = status.templates.total)
    /\ (~cfg.fetchOfficialSolution
          \/ status.officialSolution.count = status.officialSolution.total)
    /\ (~cfg.fetchSolutions
          \/ status.communitySolutions.count = status.communitySolutions.total)

\* Lines 1399-1414 guard each reason with the CONFIG flag of its kind; the
\* variant leaves the flags out.
failureReasons_unguarded(status, cfg) ==
    (IF ~status.description.success
        THEN <<[kind |-> "description", count |-> 0, total |-> 1]>> ELSE <<>>)
    \o (IF status.templates.count < status.templates.total
        THEN <<[kind |-> "templates", count |-> status.templates.count,
                total |-> status.templates.total]>> ELSE <<>>)
    \o (IF status.officialSolution.count < status.officialSolution.total
        THEN <<[kind |-> "official", count |-> status.officialSolution.count,
                total |-> status.officialSolution.total]>> ELSE <<>>)
    \o (IF status.communitySolutions.count < status.communitySolutions.total
        THEN <<[kind |-> "community", count |-> status.communitySolutions.count,
                total |-> status.communitySolutions.total]>> ELSE <<>>)

failureReasons(status, cfg) ==
    (IF ~status.description.success
        THEN <<[kind |-> "description", count |-> 0, total |-> 1]>> ELSE <<>>)
    \o (IF cfg.fetchTemplates /\ status.templates.count < status.templates.total
        THEN <<[kind |-> "templates", count |-> status.templates.count,
                total |-> status.templates.total]>> ELSE <<>>)
    \o (IF cfg.fetchOfficialSolution
           /\ status.officialSolution.count < status.officialSolution.total
        THEN <<[kind |-> "official", count |-> status.officialSolution.count,
                total |-> status.officialSolution.total]>> ELSE <<>>)
    \o (IF cfg.fetchSolutions
           /\ status.communitySolutions.count < status.communitySolutions.total
        THEN <<[kind |-> "community", count |-> status.communitySolutions.count,
                total |-> status.communitySolutions.total]>> ELSE <<>>)

\* line 1455: reasons: ['Exception: ' + error.message]; the variant leaves the list empty
ExceptionReasons_empty == <<>>
ExceptionReasons == <<[kind |-> "exception", count |-> 0, total |-> 0]>>

IsSessionExpired_never(message) == FALSE
IsSessionExpired(message) == message = SESSION_EXPIRED

\* delete failedProblems[id]
DeleteFailed_keep(fp, id) == fp
DeleteFailed(fp, id) == [k \in (DOMAIN fp) \ {id} |-> fp[k]]

\* failedProblems[id] = detail
SetFailed(fp, id, detail) ==
    [k \in (DOMAIN fp) \cup {id} |-> IF k = id THEN detail ELSE fp[k]]

\* the object handed to fs.writeJson (the variant leaves the failed map out)
Snapshot_noFailed(cp, fp) ==
    [state |-> "ok", completed |-> cp, failed |-> [k \in {} |-> <<>>]]
Snapshot(cp, fp) == [state |-> "ok", completed |-> cp, failed |-> fp]

\* ------------------------------------------------------------- progress file
\* state: "none" (no file), "corrupt" (not parseable as JSON), "ok"
NoMap == [k \in {} |-> <<>>]
NoFile == [state |-> "none", completed |-> {}, failed |-> NoMap]
\* what a write of d that was cut short leaves: text of d that does not parse
Corrupt(d) == [d EXCEPT !.state = "corrupt"]
Readable(d) == d.state = "ok"

\* lines 1325-1337: fs.readJson throws before either assignment (the variant
\* keeps what the text of the file lists)
LoadCompleted_unchecked(d) == d.completed
LoadCompleted(d) == IF Readable(d) THEN d.completed ELSE {}
LoadFailed(d) == IF Readable(d) THEN d.failed ELSE NoMap

\* ------------------------------------------------------- pre-dispatch filter
Positions == 1..Len(problems)
PositionSeq == [k \in Positions |-> k]

IsSkipped_never(p) == FALSE
IsSkipped(p) == problems[p].locked /\ ~isPremiumUser
HasCompleted_never(cp, id) == FALSE
HasCompleted(cp, id) == id \in cp

\* Lines 1355-1376 test the lock and the completed set; the variant also
\* passes over the ids of the failed map.
ToDownload_skipFailed(cp) ==
    SelectSeq(PositionSeq,
              LAMBDA p : /\ ~IsSkipped(p)
                         /\ ~HasCompleted(cp, problems[p].id)
                         /\ problems[p].id \notin DOMAIN LoadFailed(disk))

ToDownload(cp) ==
    SelectSeq(PositionSeq,
              LAMBDA p : ~IsSkipped(p) /\ ~HasCompleted(cp, problems[p].id))

\* Array.prototype.slice(from, to) on a sequence
slice(s, from, to) == SubSeq(s, from + 1, Min(to, Len(s)))

batch_all(s, from, c) == slice(s, from, Len(s))
batch(s, from, c) == slice(s, from, from + c)

Range(s) == {s[k] : k \in DOMAIN s}
CurrentBatch == Range(batch(problemsToDownload, i, CONFIG.concurrency))

\* ----------------------------------------------------------------- initial state
Items == [id : Ids, locked : BOOLEAN, remote : Profiles]

\* Ids are numbered in order of first appearance (any other catalog is one of
\* these with its ids renamed); an id may appear again.
Max(S) == CHOOSE x \in S : \A y \in S : y <= x
FirstAppearanceOrder(c) ==
    \A p \in DOMAIN c : c[p].id <= 1 + Max({c[q].id : q \in 1..(p - 1)} \cup {0})

Catalogs == {c \in UNION {[1..n -> Items] : n \in 1..MaxItems} :
                FirstAppearanceOrder(c)}

Configs == {[fetchTemplates |-> TRUE, fetchSolutions |-> TRUE,
             fetchOfficialSolution |-> TRUE, concurrency |-> c] : c \in 1..MaxConc}

\* A progress file left by earlier runs: completed and failed are disjoint.
\* Only the ids of the catalog are listed (a run never touches another id).
PriorFailure == [reasons |-> ExceptionReasons]
CatalogIds(c) == {c[p].id : p \in DOMAIN c}
InitialFiles(c) ==
    {NoFile} \cup
    {Snapshot(cp, [k \in fk |-> PriorFailure]) :
        <<cp, fk>> \in {x \in (SUBSET CatalogIds(c)) \X (SUBSET CatalogIds(c)) :
                           x[1] \cap x[2] = {}}}

Idle == [p \in Positions |-> "idle"]
NoSnap == [p \in Positions |-> NoFile]
NoVerdict == [p \in Positions |-> "none"]

\* ------------------------------------------------------------------ retryAsync
NoOutcome == [kind |-> "none", of |-> 0]

RetryIdle ==
    /\ retries = 0
    /\ delay = 0
    /\ ri = 0
    /\ rpc = "idle"
    /\ calls = 0
    /\ log = <<>>
    /\ outcome = NoOutcome

\* ------------------------------------------------------------ image rewriters
MediaIdle ==
    /\ mkind = "none"
    /\ doc = <<>>
    /\ mpc = "idle"
    /\ mpos = 0
    /\ imageMap = <<>>
    /\ imageIndex = 0
    /\ hasImages = FALSE
    /\ passes = <<>>
    /\ gaveUp = {}
    /\ out = <<>>

\* ------------------------------------------------- functions on their own
QueryIdle ==
    /\ qkind = "none"
    /\ slug = TRUE
    /\ cookies = TRUE
    /\ qpc = "idle"
    /\ qvalue = "none"
    /\ served = 0
    /\ requests = 0
    /\ failures = 0

ListIdle ==
    /\ catalogSize = 0
    /\ pageCap = 0
    /\ skip = 0
    /\ total = 0
    /\ listed = <<>>
    /\ pages = <<>>
    /\ lpc = "idle"
    /\ listError = ""

ConvertIdle ==
    /\ html = <<>>
    /\ markdown = <<>>
    /\ preBlocks = <<>>
    /\ cpc = "idle"

\* no --concurrency option
NoOption == [given |-> FALSE, text |-> <<>>]

ArgsIdle == concurrencyArg = NoOption

\* no download of one item by id
NoSingle == [pc |-> "idle", q |-> [id |-> 0, locked |-> FALSE, tag |-> ""],
             premium |-> FALSE, langs |-> 0, status |-> "none"]
SingleIdle == single = NoSingle /\ tree = {}

\* no session file, no login under way
NoUserFile == [state |-> "none", name |-> "", paid |-> FALSE,
               sessionId |-> "", sessionCSRF |-> ""]
NullUser == [null |-> TRUE, name |-> "", paid |-> FALSE,
             sessionId |-> "", sessionCSRF |-> ""]
NoLogin == [pc |-> "idle", cookie |-> "", userData |-> NullUser,
            result |-> FALSE]
LoginIdle == sessionFile = NoUserFile /\ login = NoLogin

\* no callback server
Pending == [state |-> "pending", value |-> ""]
NoServer == [server |-> "none", timeout |-> "none", promise |-> Pending,
             timers |-> <<>>, closers |-> <<>>, asked |-> <<>>,
             replies |-> <<>>]
OAuthIdle == oauth = NoServer

OtherIdle ==
    /\ ArgsIdle
    /\ SingleIdle
    /\ LoginIdle
    /\ OAuthIdle

AuxIdle ==
    /\ QueryIdle
    /\ ListIdle
    /\ ConvertIdle
    /\ OtherIdle
    /\ errorLog = <<>>

\* ------------------------------------------------------------ one item alone
NoStatus ==
    [kind |-> "status",
     description |-> [success |-> FALSE],
     templates |-> [count |-> 0, total |-> 0],
     officialSolution |-> [count |-> 0, total |-> 0],
     communitySolutions |-> [count |-> 0, total |-> 0]]

AllFlags == [fetchTemplates |-> TRUE, fetchSolutions |-> TRUE,
             fetchOfficialSolution |-> TRUE]

NoAnswers == [question |-> FALSE, content |-> FALSE, emptyCode |-> FALSE,
              codeSnippets |-> <<>>, official |-> "none"]

ItemIdle ==
    /\ session = TRUE
    /\ problem = [id |-> 1, locked |-> FALSE]
    /\ paid = FALSE
    /\ itemConfig = AllFlags
    /\ answers = NoAnswers
    /\ dpc = "idle"
    /\ lang = 0
    /\ downloadStatus = NoStatus
    /\ thrown = ""
    /\ itemVerdict = "none"
    /\ issued = <<>>
    /\ statusIcon = "none"

\* main() is entered: nothing loaded, no worker started.
BatchStart ==
    /\ run = 1
    /\ pc = "start"
    /\ i = 0
    /\ problemsToDownload = <<>>
    /\ completedProblems = {}
    /\ failedProblems = NoMap
    /\ completed = 0
    /\ failed = 0
    /\ skipped = 0
    /\ alreadyDownloaded = 0
    /\ shouldStop = FALSE
    /\ wstate = Idle
    /\ snap = NoSnap
    /\ verdict = NoVerdict
    /\ fetched = {}
    /\ loadedCompleted = {}
    /\ loadedFailed = {}
    /\ prevCompleted = {}
    /\ prevDisk = NoFile

InitBatch ==
    /\ AuxIdle
    /\ RetryIdle
    /\ MediaIdle
    /\ ItemIdle
    /\ problems \in Catalogs
    /\ CONFIG \in Configs
    /\ isPremiumUser \in BOOLEAN
    \* Inputs that cannot be told apart are drawn once: the remote answer for an
    \* item the filter skips is never asked for, and with a premium account the
    \* lock flag is read only after an empty document (line 839).
    /\ \A p \in Positions : IsSkipped(p) => problems[p].remote = "complete"
    /\ \A p \in Positions :
          (isPremiumUser /\ problems[p].locked) => problems[p].remote = "expired"
    /\ disk \in InitialFiles(problems)
    /\ BatchStart

inputVars == <<problems, CONFIG, isPremiumUser>>
counters == <<completed, failed, skipped, alreadyDownloaded>>
history == <<loadedCompleted, loadedFailed, prevCompleted, prevDisk>>

\* ------------------------------------------------------------------- main()
\* line 1366: skipped++ for every item the lock test stops (the variant
\* forgets the increment).
CountSkipped_none == Cardinality({})
CountSkipped == Cardinality({p \in Positions : IsSkipped(p)})

\* Lines 1321-1376: load the progress file, reset the counters, filter the list.
MainSetup ==
    /\ pc = "start"
    /\ completedProblems' = LoadCompleted(disk)
    /\ failedProblems' = LoadFailed(disk)
    /\ loadedCompleted' = LoadCompleted(disk)
    /\ loadedFailed' = DOMAIN LoadFailed(disk)
    /\ completed' = 0
    /\ failed' = 0
    /\ skipped' = CountSkipped
    /\ alreadyDownloaded' =
           Cardinality({p \in Positions :
               ~IsSkipped(p) /\ HasCompleted(LoadCompleted(disk), problems[p].id)})
    /\ shouldStop' = FALSE
    /\ problemsToDownload' = ToDownload(LoadCompleted(disk))
    /\ i' = 0
    /\ pc' = "loop"
    /\ UNCHANGED <<retryVars, mediaVars, itemVars, inputVars, auxVars, disk, run, wstate, snap, verdict, fetched,
                   prevCompleted, prevDisk>>

\* Lines 1468-1470: one iteration of the chunk loop starts a downloadWorker for
\* every element of the batch; each runs up to its first await.
DispatchChunk ==
    /\ pc = "loop"
    /\ i < Len(problemsToDownload)
    /\ wstate' = [p \in Positions |->
                     IF p \in CurrentBatch
                     THEN (IF shouldStop THEN "done" ELSE "running")
                     ELSE wstate[p]]
    /\ fetched' = IF shouldStop THEN fetched ELSE fetched \cup CurrentBatch
    /\ pc' = "await"
    /\ UNCHANGED <<retryVars, mediaVars, itemVars, inputVars, auxVars, disk, run, i, problemsToDownload, completedProblems,
                   failedProblems, counters, shouldStop, snap, verdict, history>>

\* Line 1470: Promise.all(batch.map(downloadWorker)) resolves once every
\* worker of the batch returned (Promise.race would resolve on the first).
AllSettled_any(B) == \E p \in B : wstate[p] = "done"
AllSettled(B) == \A p \in B : wstate[p] = "done"

\* Lines 1470-1471: the await of the chunk is over.
ChunkDone ==
    /\ pc = "await"
    /\ AllSettled(CurrentBatch)
    /\ IF shouldStop
       THEN pc' = "done" /\ i' = i
       ELSE pc' = "loop" /\ i' = i + CONFIG.concurrency
    /\ UNCHANGED <<retryVars, mediaVars, itemVars, inputVars, auxVars, disk, run, problemsToDownload, completedProblems,
                   failedProblems, counters, shouldStop, wstate, snap, verdict,
                   fetched, history>>

\* Lines 1468, 1474-1487: the loop condition fails, the summary is printed.
Summary ==
    /\ pc = "loop"
    /\ i >= Len(problemsToDownload)
    /\ pc' = "done"
    /\ UNCHANGED <<retryVars, mediaVars, itemVars, inputVars, auxVars, disk, run, i, problemsToDownload, completedProblems,
                   failedProblems, counters, shouldStop, wstate, snap, verdict,
                   fetched, history>>

\* ------------------------------------------------------------ downloadWorker
Result(p) == downloadProblem(problems[p], RemoteOf(problems[p].remote), CONFIG,
                             isPremiumUser)

\* Lines 1384-1430: downloadProblem returned a status; evaluate it, merge it into
\* the shared progress and hand the snapshot to fs.writeJson.
WorkerEvaluate(p) ==
    /\ pc = "await"
    /\ wstate[p] = "running"
    /\ Result(p).kind = "status"
    /\ LET id == problems[p].id
           ok == isFullyComplete(Result(p), CONFIG)
           cp == IF ok THEN completedProblems \cup {id} ELSE completedProblems
           fp == IF ok
                 THEN (IF id \in DOMAIN failedProblems
                       THEN DeleteFailed(failedProblems, id) ELSE failedProblems)
                 ELSE SetFailed(failedProblems, id,
                                [reasons |-> failureReasons(Result(p), CONFIG)])
       IN /\ completedProblems' = cp
          /\ failedProblems' = fp
          /\ completed' = IF ok THEN completed + 1 ELSE completed
          /\ failed' = IF ok THEN failed ELSE failed + 1
          /\ verdict' = [verdict EXCEPT ![p] = IF ok THEN "complete" ELSE "partial"]
          /\ snap' = [snap EXCEPT ![p] = Snapshot(cp, fp)]
    /\ wstate' = [wstate EXCEPT ![p] = "writing"]
    /\ UNCHANGED <<retryVars, mediaVars, itemVars, inputVars, auxVars, disk, run, pc, i, problemsToDownload, skipped,
                   alreadyDownloaded, shouldStop, fetched, history>>

\* Lines 1436-1446: downloadProblem threw a SESSION_EXPIRED error.
WorkerCatchExpired(p) ==
    /\ pc = "await"
    /\ wstate[p] = "running"
    /\ Result(p).kind = "throw"
    /\ IsSessionExpired(Result(p).message)
    /\ shouldStop' = TRUE
    /\ verdict' = [verdict EXCEPT ![p] = "auth"]
    /\ snap' = [snap EXCEPT ![p] = Snapshot(completedProblems, failedProblems)]
    /\ wstate' = [wstate EXCEPT ![p] = "writing"]
    /\ UNCHANGED <<retryVars, mediaVars, itemVars, inputVars, auxVars, disk, run, pc, i, problemsToDownload,
                   completedProblems, failedProblems, counters, fetched, history>>

\* Lines 1451-1464: downloadProblem threw any other error.
WorkerCatchOther(p) ==
    /\ pc = "await"
    /\ wstate[p] = "running"
    /\ Result(p).kind = "throw"
    /\ ~IsSessionExpired(Result(p).message)
    /\ LET fp == SetFailed(failedProblems, problems[p].id,
                           [reasons |-> ExceptionReasons])
       IN /\ failedProblems' = fp
          /\ snap' = [snap EXCEPT ![p] = Snapshot(completedProblems, fp)]
    /\ failed' = failed + 1
    /\ verdict' = [verdict EXCEPT ![p] = "exception"]
    /\ wstate' = [wstate EXCEPT ![p] = "writing"]
    /\ UNCHANGED <<retryVars, mediaVars, itemVars, inputVars, auxVars, disk, run, pc, i, problemsToDownload,
                   completedProblems, completed, skipped, alreadyDownloaded,
                   shouldStop, fetched, history>>

\* fs.writeJson of lines 1430/1460 completes: the file holds this worker's
\* snapshot (writes of one chunk may complete in any order) and the worker returns.
WriteDone(p) ==
    /\ pc = "await"
    /\ wstate[p] = "writing"
    /\ verdict[p] # "auth"
    /\ disk' = snap[p]
    /\ wstate' = [wstate EXCEPT ![p] = "done"]
    /\ UNCHANGED <<retryVars, mediaVars, itemVars, inputVars, auxVars, run, pc, i, problemsToDownload, completedProblems,
                   failedProblems, counters, shouldStop, snap, verdict, fetched,
                   history>>

\* Lines 1442-1448: the write of the SESSION_EXPIRED branch completes and
\* process.exit(1) ends the process. Workers still awaiting are gone; a write
\* another worker had in flight may have landed, not landed, or be cut short.
Writing(p) == {q \in Positions \ {p} : wstate[q] = "writing"}
ExitOutcomes(p) ==
    {snap[p]} \cup {snap[q] : q \in Writing(p)}
              \cup {Corrupt(snap[q]) : q \in Writing(p)}

ProcessExit(p) ==
    /\ pc = "await"
    /\ wstate[p] = "writing"
    /\ verdict[p] = "auth"
    /\ disk' \in ExitOutcomes(p)
    /\ wstate' = [q \in Positions |->
                     IF q = p THEN "exited"
                     ELSE IF wstate[q] \in {"running", "writing"} THEN "killed"
                     ELSE wstate[q]]
    /\ pc' = "exited"
    /\ UNCHANGED <<retryVars, mediaVars, itemVars, inputVars, auxVars, run, i, problemsToDownload, completedProblems,
                   failedProblems, counters, shouldStop, snap, verdict, fetched,
                   history>>

\* The command is invoked a second time on the same downloads folder.
NextRun ==
    /\ pc \in {"done", "exited", "crashed"}
    /\ run = 1
    /\ run' = 2
    /\ pc' = "start"
    /\ prevCompleted' = completedProblems
    /\ prevDisk' = disk
    /\ i' = 0
    /\ problemsToDownload' = <<>>
    /\ completedProblems' = {}
    /\ failedProblems' = NoMap
    /\ completed' = 0
    /\ failed' = 0
    /\ skipped' = 0
    /\ alreadyDownloaded' = 0
    /\ shouldStop' = FALSE
    /\ wstate' = Idle
    /\ snap' = NoSnap
    /\ verdict' = NoVerdict
    /\ fetched' = {}
    /\ UNCHANGED <<retryVars, mediaVars, itemVars, inputVars, auxVars, disk, loadedCompleted, loadedFailed>>

Next ==
    \/ MainSetup
    \/ DispatchChunk
    \/ ChunkDone
    \/ Summary
    \/ \E p \in Positions : WorkerEvaluate(p)
    \/ \E p \in Positions : WorkerCatchExpired(p)
    \/ \E p \in Positions : WorkerCatchOther(p)
    \/ \E p \in Positions : WriteDone(p)
    \/ \E p \in Positions : ProcessExit(p)
    \/ NextRun

Spec == InitBatch /\ [][Next]_vars

\* ------------------------------------------------------------------- crash
\* The process is killed from outside (signal, power loss) while a run is in
\* its chunk loop. fs.writeJson writes the file in place: a write that was in
\* flight may not have started, may have landed, or may be cut short.
InFlight == {q \in Positions : wstate[q] = "writing"}
CrashOutcomes ==
    {disk} \cup {snap[q] : q \in InFlight}
           \cup {Corrupt(snap[q]) : q \in InFlight}

Crash ==
    /\ pc \in {"loop", "await"}
    /\ disk' \in CrashOutcomes
    /\ wstate' = [q \in Positions |->
                     IF wstate[q] \in {"running", "writing"} THEN "killed"
                     ELSE wstate[q]]
    /\ pc' = "crashed"
    /\ UNCHANGED <<retryVars, mediaVars, itemVars, inputVars, auxVars, run, i,
                   problemsToDownload, completedProblems, failedProblems,
                   counters, shouldStop, snap, verdict, fetched, history>>

NextCrash ==
    \/ Next
    \/ Crash

\* Runs that a crash may end: the lock filter plays no part in them, so the
\* catalog is free of locked items and of repeated ids.
InitCrash ==
    /\ InitBatch
    /\ ~isPremiumUser
    /\ \A p \in Positions : ~problems[p].locked /\ problems[p].id = p

SpecCrash == InitCrash /\ [][NextCrash]_vars

\* The same catalogs and progress files, run without a kill from outside.
SpecExpiry == InitCrash /\ [][Next]_vars

\* --------------------------------------------------------- session file gone
\* Batch runs during which another process may remove the session file
\* (leetcode-fetch logout): getSessionCookies() then returns null for the
\* detail fetch of an item. No locked items, no earlier progress.
CatalogsWithLogout ==
    {c \in UNION {[1..n -> [id : Ids, locked : {FALSE},
                            remote : Profiles \cup {NoSession}]] :
                      n \in 1..MaxItems} :
        \A p \in DOMAIN c : c[p].id = p}

InitCredential ==
    /\ AuxIdle
    /\ RetryIdle
    /\ MediaIdle
    /\ ItemIdle
    /\ problems \in CatalogsWithLogout
    /\ CONFIG \in Configs
    /\ isPremiumUser = FALSE
    /\ disk = NoFile
    /\ BatchStart

SpecCredential == InitCredential /\ [][Next]_vars

\* ------------------------------------------------------------------ parseArgs
\* line 318
DEFAULT_CONCURRENCY == 5

\* The value after --concurrency: a string over these characters (as a sequence),
\* or nothing when the option is last on the line (args[++i] is undefined).
ArgChars == {"-", "0", "1", "x"}
ArgTexts == UNION {[1..n -> ArgChars] : n \in 0..MaxArg}
Options == {NoOption} \cup [given : {TRUE}, text : ArgTexts]

DigitValue(ch) == IF ch = "1" THEN 1 ELSE 0
IsDigit(ch) == ch \in {"0", "1"}

\* parseInt(text, 10): an optional sign, then the longest run of digits; NaN
\* when there is no digit. A number is [nan |-> FALSE, n |-> value].
NaN == [nan |-> TRUE, n |-> 0]
Number(n) == [nan |-> FALSE, n |-> n]

RECURSIVE Digits(_, _)
Digits(text, acc) ==
    IF text = <<>> \/ ~IsDigit(Head(text)) THEN acc
    ELSE Digits(Tail(text), 10 * acc + DigitValue(Head(text)))

parseInt(text) ==
    LET neg == text # <<>> /\ Head(text) = "-"
        rest == IF neg THEN Tail(text) ELSE text
    IN IF rest = <<>> \/ ~IsDigit(Head(rest)) THEN NaN
       ELSE Number(IF neg THEN 0 - Digits(rest, 0) ELSE Digits(rest, 0))

\* line 371: if (concurrency > 0); NaN > 0 is false
IsPositive_orZero(v) == ~v.nan /\ v.n >= 0
IsPositive(v) == ~v.nan /\ v.n > 0

\* lines 318, 369-374: config.concurrency
parseArgs(opt) ==
    IF opt.given /\ IsPositive(parseInt(opt.text))
    THEN parseInt(opt.text).n
    ELSE DEFAULT_CONCURRENCY

\* Batch runs of the command line: catalogs of MaxItems items without locked
\* items or repeated ids, no earlier progress; the first item downloads, is
\* not found or meets an expired session, the others download.
InitArgs ==
    /\ QueryIdle
    /\ ListIdle
    /\ ConvertIdle
    /\ errorLog = <<>>
    /\ RetryIdle
    /\ MediaIdle
    /\ ItemIdle
    /\ concurrencyArg \in Options
    /\ SingleIdle
    /\ LoginIdle
    /\ OAuthIdle
    /\ problems \in [1..MaxItems -> [id : Ids, locked : {FALSE},
                                      remote : {"complete", "expired",
                                                "notfound"}]]
    /\ \A p \in Positions : problems[p].id = p
    /\ \A p \in Positions \ {1} : problems[p].remote = "complete"
    /\ CONFIG = [fetchTemplates |-> TRUE, fetchSolutions |-> TRUE,
                 fetchOfficialSolution |-> TRUE,
                 concurrency |-> parseArgs(concurrencyArg)]
    /\ isPremiumUser = FALSE
    /\ disk = NoFile
    /\ BatchStart

\* Every pending step is taken in the end: a request that is under way settles
\* and the event loop runs the continuation.
SpecArgs == InitArgs /\ [][Next]_vars /\ WF_vars(Next)

\* No batch run is in progress.
BatchIdle ==
    /\ problems = <<>>
    /\ CONFIG = [fetchTemplates |-> TRUE, fetchSolutions |-> TRUE,
                 fetchOfficialSolution |-> TRUE, concurrency |-> 1]
    /\ isPremiumUser = FALSE
    /\ disk = NoFile
    /\ run = 1
    /\ pc = "idle"
    /\ i = 0
    /\ problemsToDownload = <<>>
    /\ completedProblems = {}
    /\ failedProblems = NoMap
    /\ completed = 0
    /\ failed = 0
    /\ skipped = 0
    /\ alreadyDownloaded = 0
    /\ shouldStop = FALSE
    /\ wstate = <<>>
    /\ snap = <<>>
    /\ verdict = <<>>
    /\ fetched = {}
    /\ loadedCompleted = {}
    /\ loadedFailed = {}
    /\ prevCompleted = {}
    /\ prevDisk = NoFile

\* ============================================= main() with CONFIG.problemId
\* Paths are taken relative to the output folder, one entry per component.
Seg(name) == [name |-> name, id |-> 0]
\* path.join drops empty components
Join(segs) == SelectSeq(segs, LAMBDA g : g.name # "")

\* line 1321: path.join(outputFolder, '.download-progress.json')
progressFilePath == Join(<<Seg(".download-progress.json")>>)

\* lines 820-824: tagFolder is sanitizeFolderName of the first tag, which may
\* come out empty; problemFolder starts with the zero-padded id
TagFolders == {"", "array"}
problemFolder(q) == [name |-> "problem", id |-> q.id]
problemPath(q) == Join(<<Seg(q.tag), problemFolder(q)>>)

Under(q, rest) == problemPath(q) \o rest

\* lines 864-899: the description files (the variant also rewrites the
\* progress file)
DescriptionFiles_withProgress(q) ==
    {Under(q, <<Seg("description"), Seg("problem.md")>>), progressFilePath}
DescriptionFiles(q) ==
    {Under(q, <<Seg("description"), Seg("problem.md")>>)}

\* lines 907-912
OfficialFiles(q) ==
    {Under(q, <<Seg("solutions"), Seg("official"), Seg("solution.md")>>)}

\* lines 930-934 and 944-949, one language
LanguageFiles(q, cfg, found) ==
    (IF cfg.fetchTemplates
        THEN {Under(q, <<Seg("templates"), Seg("solution.ext")>>)} ELSE {})
    \cup
    (IF cfg.fetchSolutions /\ found
        THEN {Under(q, <<Seg("solutions"), Seg("community"), Seg("lang"),
                         Seg("solution.md")>>)}
        ELSE {})

\* fs.writeFile of text at each of the paths: text written over the progress
\* file leaves it as text that is no progress record
FileAfter(d, paths) ==
    IF progressFilePath \in paths THEN [d EXCEPT !.state = "corrupt"] ELSE d

\* progress files a download of one item may find
SingleFiles ==
    LET recs == {Snapshot(cp, [k \in fk |-> PriorFailure]) :
                    <<cp, fk>> \in {x \in (SUBSET Ids) \X (SUBSET Ids) :
                                       x[1] \cap x[2] = {}}}
    IN  {NoFile} \cup recs \cup {Corrupt(d) : d \in recs}

SingleConfigs ==
    {c \in [fetchTemplates : BOOLEAN, fetchSolutions : BOOLEAN,
            fetchOfficialSolution : BOOLEAN, concurrency : {1}] :
        c.fetchTemplates \/ c.fetchSolutions}

besideDisk == <<run, pc, i, problemsToDownload, completedProblems,
                failedProblems, counters, shouldStop, wstate, snap, verdict,
                fetched, history, inputVars>>
besideSingle == <<retryVars, mediaVars, itemVars, queryVars, listVars,
                  convertVars, errorLog, concurrencyArg, sessionFile, login,
                  oauth, besideDisk>>

SingleWrite(paths) ==
    /\ tree' = tree \cup (paths \ {progressFilePath})
    /\ disk' = FileAfter(disk, paths)

\* lines 1213-1218: process.exit(1) on a session that does not verify
SingleVerify ==
    /\ single.pc = "verify"
    /\ \E valid \in BOOLEAN :
          single' = [single EXCEPT !.pc = IF valid THEN "fetch" ELSE "exit"]
    /\ UNCHANGED <<tree, disk, besideSingle>>

\* lines 1267-1276 and 1303-1306: the search throws, answers with nothing, or
\* answers with a question
SingleFetch ==
    /\ single.pc = "fetch"
    /\ \/ single' = [single EXCEPT !.pc = "done", !.status = "failed"]
       \/ single' = [single EXCEPT !.pc = "done", !.status = "not found"]
       \/ \E id \in Ids, l \in BOOLEAN, t \in TagFolders, pr \in BOOLEAN :
             single' = [single EXCEPT !.pc = "found", !.premium = pr,
                           !.q = [id |-> id, locked |-> l, tag |-> t]]
    /\ UNCHANGED <<tree, disk, besideSingle>>

\* lines 1290-1297
SingleLocked ==
    /\ single.pc = "found"
    /\ single' = IF single.q.locked /\ ~single.premium
                    THEN [single EXCEPT !.pc = "done", !.status = "skipped"]
                    ELSE [single EXCEPT !.pc = "describe"]
    /\ UNCHANGED <<tree, disk, besideSingle>>

\* downloadProblem, lines 826-899: the folders are made, then the description
\* is fetched; a throw reaches the catch of line 1303
SingleDescribe ==
    /\ single.pc = "describe"
    /\ \/ /\ single' = [single EXCEPT !.pc = "done", !.status = "failed"]
          /\ SingleWrite({})
       \/ /\ \E n \in 0..1 :
                single' = [single EXCEPT !.pc = "official", !.langs = n]
          /\ SingleWrite(DescriptionFiles(single.q))
    /\ UNCHANGED besideSingle

\* lines 903-919
SingleOfficial ==
    /\ single.pc = "official"
    /\ \/ /\ CONFIG.fetchOfficialSolution
          /\ single' = [single EXCEPT !.pc = "languages"]
          /\ SingleWrite(OfficialFiles(single.q))
       \/ /\ single' = [single EXCEPT !.pc = "languages"]
          /\ SingleWrite({})
       \/ /\ CONFIG.fetchOfficialSolution
          /\ single' = [single EXCEPT !.pc = "done", !.status = "failed"]
          /\ SingleWrite({})
    /\ UNCHANGED besideSingle

\* lines 924-955 and 1299-1302: the language loop, then the status line
SingleLanguages ==
    /\ single.pc = "languages"
    /\ \/ /\ single' = [single EXCEPT !.pc = "done", !.status = "shown"]
          /\ IF single.langs = 0 THEN SingleWrite({})
             ELSE \E found \in BOOLEAN :
                     SingleWrite(LanguageFiles(single.q, CONFIG, found))
       \/ /\ single.langs > 0 /\ CONFIG.fetchSolutions
          /\ single' = [single EXCEPT !.pc = "done", !.status = "failed"]
          /\ SingleWrite(LanguageFiles(single.q, CONFIG, FALSE))
    /\ UNCHANGED besideSingle

NextSingle ==
    \/ SingleVerify
    \/ SingleFetch
    \/ SingleLocked
    \/ SingleDescribe
    \/ SingleOfficial
    \/ SingleLanguages

InitSingle ==
    /\ RetryIdle
    /\ MediaIdle
    /\ ItemIdle
    /\ QueryIdle
    /\ ListIdle
    /\ ConvertIdle
    /\ ArgsIdle
    /\ LoginIdle
    /\ OAuthIdle
    /\ errorLog = <<>>
    /\ problems = <<>>
    /\ CONFIG \in SingleConfigs
    /\ isPremiumUser = FALSE
    /\ disk \in SingleFiles
    /\ prevDisk = disk
    /\ run = 1
    /\ pc = "idle"
    /\ i = 0
    /\ problemsToDownload = <<>>
    /\ completedProblems = {}
    /\ failedProblems = NoMap
    /\ completed = 0
    /\ failed = 0
    /\ skipped = 0
    /\ alreadyDownloaded = 0
    /\ shouldStop = FALSE
    /\ wstate = <<>>
    /\ snap = <<>>
    /\ verdict = <<>>
    /\ fetched = {}
    /\ loadedCompleted = {}
    /\ loadedFailed = {}
    /\ prevCompleted = {}
    /\ single = [NoSingle EXCEPT !.pc = "verify"]
    /\ tree = {}

SpecSingle == InitSingle /\ [][NextSingle]_vars

\* ===================================================================== login()
\* session.js, getSessionCookies (lines 15-35): null when the file is absent,
\* does not parse, or lacks a non-empty sessionId or sessionCSRF
NullCookies == [null |-> TRUE, session |-> "", csrf |-> ""]
getSessionCookies(f) ==
    IF f.state = "none" THEN NullCookies
    ELSE IF f.state = "corrupt" THEN NullCookies
    ELSE IF f.sessionId = "" \/ f.sessionCSRF = "" THEN NullCookies
    ELSE [null |-> FALSE, session |-> f.sessionId, csrf |-> f.sessionCSRF]

\* session.js, lines 82-84
isLoggedIn(f) == f.state # "none" /\ getSessionCookies(f) # NullCookies

\* session.js, saveSession (lines 37-51): JSON.stringify(data) written in one
\* writeFileSync; a throw is caught and the file stays
saveSession(f, data, writes) ==
    IF writes
       THEN [state |-> "ok", name |-> data.name, paid |-> data.paid,
             sessionId |-> data.sessionId, sessionCSRF |-> data.sessionCSRF]
       ELSE f

\* the set-cookie header of the answer: absent, without a csrftoken cookie,
\* with "csrftoken=" followed by nothing, or with a token
SetCookies == {"none", "other", "csrftoken=;", "csrftoken=t"}

\* auth.js, lines 99-110: the match of /csrftoken=([^;]+)/, or ''
csrfToken(setCookie) == IF setCookie = "csrftoken=t" THEN "t" ELSE ""

\* answers of the globalData query: the request throws, the answer has no
\* userStatus, or it has one
Responses ==
    [kind : {"throws", "nostatus"}, isSignedIn : {FALSE}, username : {""},
     isPremium : {FALSE}, setCookie : {"none"}]
    \cup
    [kind : {"status"}, isSignedIn : BOOLEAN, username : {"", "u"},
     isPremium : BOOLEAN, setCookie : SetCookies]

\* auth.js, verifyUserWithCookie (lines 69-125)
verifyUserWithCookie(cookie, r) ==
    IF r.kind = "status" /\ r.isSignedIn /\ r.username # ""
       THEN [null |-> FALSE, name |-> r.username, paid |-> r.isPremium,
             sessionId |-> cookie, sessionCSRF |-> csrfToken(r.setCookie)]
       ELSE NullUser

\* session files a login may find
UserFiles ==
    {NoUserFile}
    \cup [state : {"ok", "corrupt"}, name : {"u"}, paid : {FALSE},
          sessionId : {"", "old"}, sessionCSRF : {"", "t"}]

\* cookies startOAuthServer resolves with: never empty (oauth-server.js,
\* line 34)
Cookies == {"s", "r"}

besideLogin == <<retryVars, mediaVars, itemVars, batchVars, queryVars,
                 listVars, convertVars, errorLog, concurrencyArg, single,
                 tree, oauth>>

\* auth.js, lines 131-136: already logged in
LoginStart ==
    /\ login.pc = "start"
    /\ login' = IF isLoggedIn(sessionFile)
                   THEN [login EXCEPT !.pc = "returned", !.result = TRUE]
                   ELSE [login EXCEPT !.pc = "waiting"]
    /\ UNCHANGED <<sessionFile, besideLogin>>

\* auth.js, lines 147 and 165-170: startOAuthServer resolves with the cookie,
\* or rejects and login returns false
LoginCallback ==
    /\ login.pc = "waiting"
    /\ \/ \E c \in Cookies :
             login' = [login EXCEPT !.pc = "verifying", !.cookie = c]
       \/ login' = [login EXCEPT !.pc = "returned", !.result = FALSE]
    /\ UNCHANGED <<sessionFile, besideLogin>>

\* auth.js, lines 152 and 160-164
LoginVerify ==
    /\ login.pc = "verifying"
    /\ \E r \in Responses :
          LET u == verifyUserWithCookie(login.cookie, r)
          IN  login' = IF u = NullUser
                          THEN [login EXCEPT !.pc = "returned",
                                             !.result = FALSE]
                          ELSE [login EXCEPT !.pc = "saving", !.userData = u]
    /\ UNCHANGED <<sessionFile, besideLogin>>

\* auth.js, lines 155-159: saveSession(userData), its value unused, then
\* return true
LoginSave ==
    /\ login.pc = "saving"
    /\ \E writes \in BOOLEAN :
          sessionFile' = saveSession(sessionFile, login.userData, writes)
    /\ login' = [login EXCEPT !.pc = "returned", !.result = TRUE]
    /\ UNCHANGED besideLogin

NextLogin ==
    \/ LoginStart
    \/ LoginCallback
    \/ LoginVerify
    \/ LoginSave

InitLogin ==
    /\ RetryIdle
    /\ MediaIdle
    /\ ItemIdle
    /\ BatchIdle
    /\ QueryIdle
    /\ ListIdle
    /\ ConvertIdle
    /\ ArgsIdle
    /\ SingleIdle
    /\ OAuthIdle
    /\ errorLog = <<>>
    /\ sessionFile \in UserFiles
    /\ login = [NoLogin EXCEPT !.pc = "start"]

SpecLogin == InitLogin /\ [][NextLogin]_vars

\* ========================================================== startOAuthServer()
\* requests the server handles in one run
MaxRequests == 3

TIMEOUT == "Authentication timeout after 5 minutes"
NO_COOKIE == "No cookie received from LeetCode"
PORT_IN_USE == "Port is already in use"

\* the cookie parameter of the query string: absent or empty, a value, a
\* value behind the prefix LEETCODE_SESSION=, or given more than once (which
\* url.parse hands over as an array)
Queries ==
    [prefixed : BOOLEAN, rest : {"", "s", "r"}, repeated : {FALSE}]
    \cup {[prefixed |-> FALSE, rest |-> "s", repeated |-> TRUE]}
Paths == {"/callback", "/favicon.ico"}

\* lines 28-32
CookieOf(q) == q.rest

\* resolve and reject of a promise: only the first call settles it
Settle(pr, state, value) ==
    IF pr.state = "pending" THEN [state |-> state, value |-> value] ELSE pr

\* lines 42-47 and 56-61: the callback handed to server.close
CloseCallback(pr, cookie) ==
    IF cookie # "" THEN Settle(pr, "resolved", cookie)
    ELSE Settle(pr, "rejected", NO_COOKIE)

RECURSIVE CallAll(_, _)
CallAll(pr, cbs) ==
    IF cbs = <<>> THEN pr
    ELSE CallAll(CloseCallback(pr, Head(cbs)), Tail(cbs))

besideOAuth == <<retryVars, mediaVars, itemVars, batchVars, queryVars,
                 listVars, convertVars, errorLog, concurrencyArg, single,
                 tree, sessionFile, login>>

\* lines 85-86: the server listens
OAuthListen ==
    /\ oauth.server = "starting"
    /\ oauth' = [oauth EXCEPT !.server = "listening"]
    /\ UNCHANGED besideOAuth

\* lines 76-83: 'error' (the port is taken)
OAuthError ==
    /\ oauth.server = "starting"
    /\ oauth' = [oauth EXCEPT !.server = "failed", !.timeout = "cleared",
                    !.promise = Settle(@, "rejected", PORT_IN_USE)]
    /\ UNCHANGED besideOAuth

\* lines 24-67: one request
OAuthRequest ==
    /\ oauth.server = "listening"
    /\ Len(oauth.replies) < MaxRequests
    /\ \E path \in Paths, q \in Queries :
          IF path = "/callback" /\ q.repeated
             \* line 30: an array has no startsWith; the TypeError leaves
             \* the request listener and ends the process
             THEN oauth' = [oauth EXCEPT
                               !.replies = Append(@, 0),
                               !.server = "crashed",
                               !.timeout = "cleared",
                               !.timers = <<>>,
                               !.closers = <<>>]
          ELSE IF path = "/callback"
             THEN oauth' = [oauth EXCEPT
                               !.replies = Append(@, 302),
                               !.timeout = "cleared",
                               !.timers = Append(@, CookieOf(q)),
                               !.asked = Append(@, CookieOf(q))]
             ELSE oauth' = [oauth EXCEPT !.replies = Append(@, 404)]
    /\ UNCHANGED besideOAuth

\* lines 42-47 and 56-61: a 100 ms timer fires; server.close(cb) stops the
\* server and keeps cb for the 'close' event
OAuthTimerFire ==
    /\ oauth.timers # <<>>
    /\ oauth' = [oauth EXCEPT !.timers = Tail(@),
                    !.server = "closed",
                    !.closers = Append(@, Head(oauth.timers))]
    /\ UNCHANGED besideOAuth

\* the 'close' event: every callback kept so far is called, in order
OAuthCloseEvent ==
    /\ oauth.closers # <<>>
    /\ oauth' = [oauth EXCEPT !.closers = <<>>,
                    !.promise = CallAll(@, oauth.closers)]
    /\ UNCHANGED besideOAuth

\* lines 16-22: the 5-minute timer fires
OAuthTimeout ==
    /\ oauth.timeout = "armed"
    /\ oauth' = [oauth EXCEPT !.timeout = "fired", !.server = "closed",
                    !.promise = Settle(@, "rejected", TIMEOUT)]
    /\ UNCHANGED besideOAuth

NextOAuth ==
    \/ OAuthListen
    \/ OAuthError
    \/ OAuthRequest
    \/ OAuthTimerFire
    \/ OAuthCloseEvent
    \/ OAuthTimeout

InitOAuth ==
    /\ RetryIdle
    /\ MediaIdle
    /\ ItemIdle
    /\ BatchIdle
    /\ QueryIdle
    /\ ListIdle
    /\ ConvertIdle
    /\ ArgsIdle
    /\ SingleIdle
    /\ LoginIdle
    /\ errorLog = <<>>
    /\ oauth = [NoServer EXCEPT !.server = "starting", !.timeout = "armed"]

\* Timers that are set fire and a closing server emits 'close'; requests come
\* or not as the browser pleases.
SpecOAuth ==
    /\ InitOAuth
    /\ [][NextOAuth]_vars
    /\ WF_vars(OAuthTimerFire)
    /\ WF_vars(OAuthCloseEvent)
    /\ WF_vars(OAuthTimeout)

\* ================================================================== retryAsync
Call(n) == [ev |-> "call", arg |-> n]
Sleep(ms) == [ev |-> "sleep", arg |-> ms]

\* line 244: delay * (i + 1)
Backoff_constant(d, k) == d
Backoff(d, k) == d * (k + 1)

\* line 243: i === retries - 1
IsLastAttempt_offByOne(k, n) == k = n
IsLastAttempt(k, n) == k = n - 1

InitRetry ==
    /\ AuxIdle
    /\ BatchIdle
    /\ MediaIdle
    /\ ItemIdle
    /\ retries \in 0..MaxAttempts
    /\ delay \in 1..MaxDelay
    /\ ri = 0
    /\ rpc = "loop"
    /\ calls = 0
    /\ log = <<>>
    /\ outcome = NoOutcome

\* lines 239-241: the loop condition holds and fn is called.
RetryInvoke ==
    /\ rpc = "loop"
    /\ ri < retries
    /\ calls' = calls + 1
    /\ log' = Append(log, Call(ri + 1))
    /\ rpc' = "pending"
    /\ UNCHANGED <<batchVars, auxVars, itemVars, mediaVars, retries, delay, ri, outcome>>

\* What the query functions throw; every other value is returned.
API_FAILED == "LeetCode API request failed"
NO_QUESTION == "Failed to fetch problem"
Errors == {NO_COOKIES, API_FAILED, NO_QUESTION}

\* fn's promise has settled. For a bare fn (qkind = "none") either way is open;
\* a query function has run its body for this call and returned or thrown.
FnSettled(rejected) ==
    \/ qkind = "none"
    \/ /\ served = calls
       /\ qpc = "settled"
       /\ (qvalue \in Errors) = rejected

\* line 241: fn's promise fulfils; its value is returned.
RetryResolve ==
    /\ rpc = "pending"
    /\ FnSettled(FALSE)
    /\ outcome' = [kind |-> "return", of |-> ri + 1]
    /\ rpc' = "returned"
    /\ UNCHANGED <<batchVars, auxVars, itemVars, mediaVars, retries, delay, ri, calls, log>>

\* lines 242-244: fn's promise rejects; rethrow on the last attempt, else sleep.
RetryReject ==
    /\ rpc = "pending"
    /\ FnSettled(TRUE)
    /\ IF IsLastAttempt(ri, retries)
       THEN /\ outcome' = [kind |-> "throw", of |-> ri + 1]
            /\ rpc' = "thrown"
            /\ log' = log
       ELSE /\ log' = Append(log, Sleep(Backoff(delay, ri)))
            /\ rpc' = "sleeping"
            /\ outcome' = outcome
    /\ UNCHANGED <<batchVars, auxVars, itemVars, mediaVars, retries, delay, ri, calls>>

\* lines 244, 239: the sleep is over, i++.
RetryWake ==
    /\ rpc = "sleeping"
    /\ ri' = ri + 1
    /\ rpc' = "loop"
    /\ UNCHANGED <<batchVars, auxVars, itemVars, mediaVars, retries, delay, calls, log, outcome>>

\* lines 239, 247: the loop condition fails; the function returns undefined.
RetryFallOff ==
    /\ rpc = "loop"
    /\ ri >= retries
    /\ outcome' = [kind |-> "undefined", of |-> 0]
    /\ rpc' = "returned"
    /\ UNCHANGED <<batchVars, auxVars, itemVars, mediaVars, retries, delay, ri, calls, log>>

NextRetry ==
    \/ RetryInvoke
    \/ RetryResolve
    \/ RetryReject
    \/ RetryWake
    \/ RetryFallOff

SpecRetry == InitRetry /\ [][NextRetry]_vars

\* ============================================== queries through retryAsync
\* retryAsync(() => getProblemDescription(slug)) of line 833,
\* retryAsync(() => getOfficialSolution(...)) of line 904 and
\* retryAsync(() => getDiscussSolution(...)) of line 941, each with the default
\* retries and delay. Every request may fail with a network error.
QueryKinds == {"detail", "official", "community"}

InitQuery ==
    /\ BatchIdle
    /\ MediaIdle
    /\ ItemIdle
    /\ errorLog = <<>>
    /\ ListIdle
    /\ ConvertIdle
    /\ OtherIdle
    /\ qkind \in QueryKinds
    /\ slug \in BOOLEAN
    /\ cookies \in BOOLEAN
    /\ qpc = "idle"
    /\ qvalue = "none"
    /\ served = 0
    /\ requests = 0
    /\ failures = 0
    /\ retries = MAX_RETRIES
    /\ delay = RETRY_DELAY
    /\ ri = 0
    /\ rpc = "loop"
    /\ calls = 0
    /\ log = <<>>
    /\ outcome = NoOutcome

\* What each function makes of a request that failed: fetchFromLeetCodeAPI
\* rethrows (line 405), getOfficialSolution returns null (line 762),
\* getDiscussSolution returns {status: 'error'} (line 653).
OnNetworkError(kind) ==
    CASE kind = "detail" -> API_FAILED
      [] kind = "official" -> "null"
      [] kind = "community" -> "status:error"

\* The functions that return at once on an empty slug, and what they return
\* (lines 572, 703).
OnNoSlug(kind) ==
    CASE kind = "detail" -> "none"
      [] kind = "official" -> "null"
      [] kind = "community" -> "status:no_solution"

\* What each function does without session cookies (lines 385-387, 705-706,
\* 574-575).
OnNoCookies(kind) ==
    CASE kind = "detail" -> NO_COOKIES
      [] kind = "official" -> "null"
      [] kind = "community" -> "status:error"

\* What each function makes of an answer that holds / does not hold what was
\* asked for (lines 511-514, 750-759, 633-651).
OnAnswer(kind, has) ==
    CASE kind = "detail" -> IF has THEN "question" ELSE NO_QUESTION
      [] kind = "official" -> IF has THEN "solution" ELSE "null"
      [] kind = "community" -> IF has THEN "status:success"
                                      ELSE "status:no_solution"

\* The function is entered for the call retryAsync just made: without cookies
\* it is over at once, else the request is issued.
QueryEnter ==
    /\ qkind \in QueryKinds
    /\ rpc = "pending"
    /\ served < calls
    /\ served' = calls
    /\ IF ~slug /\ OnNoSlug(qkind) # "none"
       THEN /\ requests' = requests
            /\ qpc' = "settled"
            /\ qvalue' = OnNoSlug(qkind)
       ELSE IF cookies
       THEN /\ requests' = requests + 1
            /\ qpc' = "inflight"
            /\ qvalue' = qvalue
       ELSE /\ requests' = requests
            /\ qpc' = "settled"
            /\ qvalue' = OnNoCookies(qkind)
    /\ UNCHANGED <<batchVars, mediaVars, itemVars, retryVars, besideQuery, qkind, slug, cookies,
                   failures>>

\* axios.post rejects.
QueryFails ==
    /\ qpc = "inflight"
    /\ failures' = failures + 1
    /\ qvalue' = OnNetworkError(qkind)
    /\ qpc' = "settled"
    /\ UNCHANGED <<batchVars, mediaVars, itemVars, retryVars, besideQuery, qkind, slug, cookies,
                   served, requests>>

\* axios.post resolves with a response.
QueryAnswers ==
    /\ qpc = "inflight"
    /\ \E has \in BOOLEAN : qvalue' = OnAnswer(qkind, has)
    /\ qpc' = "settled"
    /\ UNCHANGED <<batchVars, mediaVars, itemVars, retryVars, besideQuery, qkind, slug, cookies,
                   served, requests, failures>>

NextQuery ==
    \/ RetryInvoke
    \/ QueryEnter
    \/ QueryFails
    \/ QueryAnswers
    \/ RetryResolve
    \/ RetryReject
    \/ RetryWake

SpecQuery == InitQuery /\ [][NextQuery]_vars

\* ================================================================ listProblems
\* line 442
limit == 100

\* The questions are numbered 1..catalogSize in the order the server lists
\* them. A response to (limit, skip) holds the questions after the first
\* `skip`, at most `limit` of them and at most pageCap.
Page(s) ==
    [k \in 1..Min(Min(limit, pageCap), IF catalogSize > s THEN catalogSize - s ELSE 0)
        |-> s + k]

\* line 474: while (skip < total)
KeepGoing_inclusive(s, t) == s <= t
KeepGoing(s, t) == s < t

LIST_FAILED == "Failed to fetch problems list"

InitList ==
    /\ BatchIdle
    /\ RetryIdle
    /\ MediaIdle
    /\ ItemIdle
    /\ QueryIdle
    /\ ConvertIdle
    /\ OtherIdle
    /\ errorLog = <<>>
    /\ catalogSize \in 0..MaxTotal
    /\ pageCap \in {limit \div 2, limit}
    /\ skip = 0
    /\ total = 0
    /\ listed = <<>>
    /\ pages = <<>>
    /\ lpc = "loop"
    /\ listError = ""

\* lines 446-474: one iteration of the do-while: the request, the questions
\* pushed, total taken from the response, skip advanced, the condition tested.
ListPage ==
    /\ lpc = "loop"
    /\ pages' = Append(pages, skip)
    /\ total' = catalogSize
    /\ listed' = listed \o Page(skip)
    /\ skip' = skip + limit
    /\ lpc' = IF KeepGoing(skip', total') THEN "loop" ELSE "returned"
    /\ UNCHANGED <<batchVars, retryVars, mediaVars, itemVars, besideList,
                   catalogSize, pageCap, listError>>

\* lines 404-406, 453-455: the request fails or the response holds no
\* problemsetQuestionList; listProblems throws.
ListFails ==
    /\ lpc = "loop"
    /\ pages' = Append(pages, skip)
    /\ listError' \in {API_FAILED, LIST_FAILED}
    /\ lpc' = "thrown"
    /\ UNCHANGED <<batchVars, retryVars, mediaVars, itemVars, besideList,
                   catalogSize, pageCap, skip, total, listed>>

NextList ==
    \/ ListPage
    \/ ListFails

SpecList == InitList /\ [][NextList]_vars

\* ======================================================= convertHtmlToMarkdown
\* A document is a sequence of units: a character that is not part of a code
\* block, a character reference, or a whole <pre> block. Every unit is a record
\* of one shape: c the kind, k an index, v the text inside a block (a sequence
\* of characters and tags).
Tok(c, k, v) == [c |-> c, k |-> k, v |-> v]
Chr(c) == Tok(c, 0, <<>>)
Letter == Chr("x")
Lt == Chr("<")
Gt == Chr(">")
EntLt == Chr("&lt;")
EntGt == Chr("&gt;")

\* <pre>v</pre>; with v empty the block is <pre><code></code></pre>.
Pre(v) == Tok("pre", 0, v)
\* ___PRE_BLOCK_k___
Placeholder(k) == Tok("ph", k, <<>>)
\* ```\nv\n```; k is read only when v names a placeholder
Fence(k, v) == Tok("fence", k, v)

Contents == {<<"c">>, <<"$&">>, <<>>,
             <<"<strong>", "c", "</strong>">>, <<"<span>", "c", "</span>">>}

\* lines 1108-1111: the three replacements applied to the text of a block:
\* <strong ...>x</strong> -> x, <em>x</em> -> x, then /<[^>]+>/g -> ''.
IsTag(u) == u \in {"<strong>", "</strong>", "<em>", "</em>", "<span>", "</span>"}

FirstAt(v, u, from) ==
    LET at == {n \in from..Len(v) : v[n] = u}
    IN IF at = {} THEN 0 ELSE CHOOSE n \in at : \A q \in at : n <= q

RECURSIVE Unwrap(_, _, _)
Unwrap(v, open, close) ==
    LET a == FirstAt(v, open, 1)
        b == IF a = 0 THEN 0 ELSE FirstAt(v, close, a + 1)
    IN IF b = 0 THEN v
       ELSE SubSeq(v, 1, a - 1) \o SubSeq(v, a + 1, b - 1)
            \o Unwrap(SubSeq(v, b + 1, Len(v)), open, close)

EmphasisRemoved(v) == Unwrap(Unwrap(v, "<strong>", "</strong>"), "<em>", "</em>")
cleanContent(v) == SelectSeq(EmphasisRemoved(v), LAMBDA u : ~IsTag(u))
Alphabet == {Letter, Lt, Gt, EntLt, EntGt} \cup {Pre(v) : v \in Contents}
Documents == UNION {[1..n -> Alphabet] : n \in 0..MaxDoc}

IsPre(t) == t.c = "pre"
PreBefore(h, n) == Cardinality({j \in 1..(n - 1) : IsPre(h[j])})

\* lines 1106-1116: the callback of html.replace, for each block in order.
\* `codeContent || preContent` is undefined for <pre><code></code></pre>.
ExtractThrows(h) == \E n \in DOMAIN h : IsPre(h[n]) /\ h[n].v = <<>>
WithPlaceholders(h) ==
    [n \in DOMAIN h |-> IF IsPre(h[n]) THEN Placeholder(PreBefore(h, n))
                                       ELSE h[n]]
RawBlocks(h) ==
    LET ps == SelectSeq(h, IsPre) IN [j \in DOMAIN ps |-> ps[j].v]
Blocks(h) == [j \in DOMAIN RawBlocks(h) |-> cleanContent(RawBlocks(h)[j])]

\* lines 1150-1151: .replace(/&lt;/g, '<').replace(/&gt;/g, '>')
DecodeEntities(m) ==
    [n \in DOMAIN m |-> IF m[n] = EntLt THEN Lt
                        ELSE IF m[n] = EntGt THEN Gt
                        ELSE m[n]]

\* line 1167: .replace(/<[^>]+>/g, ''): from a '<' up to the next '>', at
\* least one unit in between.
NextGt(m) ==
    LET gts == {n \in 2..Len(m) : m[n] = Gt}
    IN IF gts = {} THEN 0 ELSE CHOOSE n \in gts : \A q \in gts : n <= q

RECURSIVE StripTags(_)
StripTags(m) ==
    IF m = <<>> THEN <<>>
    ELSE IF m[1] = Lt /\ NextGt(m) > 2
         THEN StripTags(SubSeq(m, NextGt(m) + 1, Len(m)))
         ELSE <<m[1]>> \o StripTags(Tail(m))

\* lines 1171-1173: markdown.replace('___PRE_BLOCK_i___', preBlocks[i]) with a
\* string pattern: the first occurrence is replaced, and $& in the replacement
\* stands for the matched text.
Substituted(k, v) ==
    IF \E n \in DOMAIN v : v[n] = "$&"
    THEN Fence(k, [n \in DOMAIN v |-> IF v[n] = "$&" THEN "___PRE_BLOCK___"
                                                    ELSE v[n]])
    ELSE Fence(0, v)

Reinserted(m, blocks) ==
    [n \in DOMAIN m |->
        IF m[n].c = "ph" /\ m[n].k < Len(blocks)
        THEN Substituted(m[n].k, blocks[m[n].k + 1])
        ELSE m[n]]

InitConvert ==
    /\ BatchIdle
    /\ RetryIdle
    /\ MediaIdle
    /\ ItemIdle
    /\ QueryIdle
    /\ ListIdle
    /\ OtherIdle
    /\ errorLog = <<>>
    /\ html \in Documents
    /\ markdown = <<>>
    /\ preBlocks = <<>>
    /\ cpc = "extract"

\* lines 1106-1116
ConvertExtract ==
    /\ cpc = "extract"
    /\ IF ExtractThrows(html)
       THEN /\ cpc' = "thrown"
            /\ UNCHANGED <<markdown, preBlocks>>
       ELSE /\ markdown' = WithPlaceholders(html)
            /\ preBlocks' = Blocks(html)
            /\ cpc' = "rewrite"
    /\ UNCHANGED <<batchVars, retryVars, mediaVars, itemVars, besideConvert, html>>

\* lines 1118-1166: images, emphasis, lists, headings, character references
ConvertRewrite ==
    /\ cpc = "rewrite"
    /\ markdown' = DecodeEntities(markdown)
    /\ cpc' = "strip"
    /\ UNCHANGED <<batchVars, retryVars, mediaVars, itemVars, besideConvert, html,
                   preBlocks>>

\* lines 1167-1169
ConvertStrip ==
    /\ cpc = "strip"
    /\ markdown' = StripTags(markdown)
    /\ cpc' = "reinsert"
    /\ UNCHANGED <<batchVars, retryVars, mediaVars, itemVars, besideConvert, html,
                   preBlocks>>

\* lines 1171-1175
ConvertReinsert ==
    /\ cpc = "reinsert"
    /\ markdown' = Reinserted(markdown, preBlocks)
    /\ cpc' = "returned"
    /\ UNCHANGED <<batchVars, retryVars, mediaVars, itemVars, besideConvert, html,
                   preBlocks>>

NextConvert ==
    \/ ConvertExtract
    \/ ConvertRewrite
    \/ ConvertStrip
    \/ ConvertReinsert

SpecConvert == InitConvert /\ [][NextConvert]_vars

\* ============================================================= image rewriters
\* An image reference: the URL it names, and whether it is written host-relative
\* ("/..."), which only the HTML regex accepts.
Urls == 1..NumUrls
Refs(kind) == IF kind = "html" THEN [url : Urls, rel : BOOLEAN]
              ELSE [url : Urls, rel : {FALSE}]

\* lines 977-981: fullUrl
fullUrl(ref) == [url |-> ref.url, rel |-> FALSE]

\* lines 676, 684 / 992, 1000: `${relativeImagePath}/${imageIndex}${ext}`
LocalPath(n) == [kind |-> "local", n |-> n]
RemotePath(ref) == [kind |-> "remote", ref |-> ref]

SetImage(m, ref, path) ==
    [k \in (DOMAIN m) \cup {ref} |-> IF k = ref THEN path ELSE m[k]]

Bump(f, k) == [x \in (DOMAIN f) \cup {k} |->
                 IF x = k THEN (IF k \in DOMAIN f THEN f[k] + 1 ELSE 1) ELSE f[x]]

InitMedia ==
    /\ AuxIdle
    /\ BatchIdle
    /\ RetryIdle
    /\ ItemIdle
    /\ mkind \in {"markdown", "html"}
    /\ doc \in UNION {[1..n -> Refs(mkind)] : n \in 1..MaxRefs}
    /\ mpc = "scan"
    /\ mpos = 1
    /\ imageMap = <<>>
    /\ imageIndex = 0
    /\ hasImages = FALSE
    /\ passes = <<>>
    /\ gaveUp = {}
    /\ out = <<>>

\* lines 664-679 / 975-995: the regex finds the next reference; retryAsync is
\* called for it with the default arguments.
MediaMatch ==
    /\ mpc = "scan"
    /\ mpos <= Len(doc)
    /\ hasImages' = TRUE
    /\ passes' = Bump(passes, fullUrl(doc[mpos]))
    /\ mpc' = "download"
    /\ retries' = MAX_RETRIES
    /\ delay' = RETRY_DELAY
    /\ ri' = 0
    /\ rpc' = "loop"
    /\ calls' = 0
    /\ log' = <<>>
    /\ outcome' = NoOutcome
    /\ UNCHANGED <<batchVars, auxVars, itemVars, mkind, doc, mpos, imageMap, imageIndex, gaveUp, out>>

\* lines 684-685 / 1000-1001: the download succeeded.
MediaDownloaded ==
    /\ mpc = "download"
    /\ rpc = "returned"
    /\ imageMap' = SetImage(imageMap, doc[mpos], LocalPath(imageIndex))
    /\ imageIndex' = imageIndex + 1
    /\ mpos' = mpos + 1
    /\ mpc' = "scan"
    /\ rpc' = "idle"
    /\ UNCHANGED <<batchVars, auxVars, itemVars, mkind, doc, hasImages, passes, gaveUp, out,
                   retries, delay, ri, calls, log, outcome>>

\* lines 686-688 / 1002-1004: retryAsync threw; the reference keeps its URL.
MediaFailed ==
    /\ mpc = "download"
    /\ rpc = "thrown"
    /\ imageMap' = SetImage(imageMap, doc[mpos],
                            RemotePath(IF mkind = "html" THEN fullUrl(doc[mpos])
                                       ELSE doc[mpos]))
    /\ gaveUp' = gaveUp \cup {doc[mpos]}
    /\ mpos' = mpos + 1
    /\ mpc' = "scan"
    /\ rpc' = "idle"
    /\ UNCHANGED <<batchVars, auxVars, itemVars, mkind, doc, imageIndex, hasImages, passes, out,
                   retries, delay, ri, calls, log, outcome>>

\* lines 691-699 / 1007-1014: every reference is replaced by its map entry.
MediaRewrite ==
    /\ mpc = "scan"
    /\ mpos > Len(doc)
    /\ out' = [p \in DOMAIN doc |->
                 IF doc[p] \in DOMAIN imageMap THEN imageMap[doc[p]]
                 ELSE RemotePath(doc[p])]
    /\ mpc' = "done"
    /\ UNCHANGED <<batchVars, auxVars, itemVars, retryVars, mkind, doc, mpos, imageMap, imageIndex,
                   hasImages, passes, gaveUp>>

NextMedia ==
    \/ MediaMatch
    \/ RetryInvoke
    \/ RetryResolve
    \/ RetryReject
    \/ RetryWake
    \/ MediaDownloaded
    \/ MediaFailed
    \/ MediaRewrite

SpecMedia == InitMedia /\ [][NextMedia]_vars

\* ================================================= one item, step by step
\* downloadProblem for one problem, its loops unrolled, followed by the
\* downloadWorker that evaluates what it returned or threw.
DiscussStatuses == {"success", "no_solution", "error"}

\* One codeSnippet: whether it carries code, and what getDiscussSolution
\* answers for its language.
Snippets == [code : BOOLEAN, discuss : DiscussStatuses]

\* What the official-solution query meets: a solution, an answer without one,
\* or a network error on every request (caught at line 761).
OfficialOutcomes == {"solution", "none", "error"}

Flags == [fetchTemplates : BOOLEAN, fetchSolutions : BOOLEAN,
          fetchOfficialSolution : BOOLEAN]

\* Inputs that are never read are drawn once: nothing of the answer is read
\* when the detail fetch throws, the lock flag and the account are read only
\* for an empty document, and CONFIG and the rest of the answer only after a
\* document that has been transcoded. emptyCode: the document holds an empty
\* <pre><code></code></pre> block.
InitItem ==
    /\ AuxIdle
    /\ BatchIdle
    /\ RetryIdle
    /\ MediaIdle
    /\ session \in BOOLEAN
    /\ problem \in [id : {1}, locked : BOOLEAN]
    /\ paid \in BOOLEAN
    /\ itemConfig \in Flags
    /\ answers \in [question : BOOLEAN, content : BOOLEAN, emptyCode : BOOLEAN,
                    codeSnippets : UNION {[1..n -> Snippets] : n \in 0..MaxLangs},
                    official : OfficialOutcomes]
    /\ ~session => answers = NoAnswers
    /\ ~answers.question => answers = NoAnswers
    /\ (~answers.content \/ answers.emptyCode) =>
          /\ answers.codeSnippets = <<>>
          /\ answers.official = "none"
          /\ itemConfig = AllFlags
    /\ ~answers.content => ~answers.emptyCode
    /\ (~session \/ ~answers.question \/ answers.content) =>
          (~problem.locked /\ ~paid)
    /\ dpc = "fetch"
    /\ lang = 0
    /\ downloadStatus = NoStatus
    /\ thrown = ""
    /\ itemVerdict = "none"
    /\ issued = <<>>
    /\ statusIcon = "none"

batchRest == <<problems, CONFIG, isPremiumUser, disk, run, pc, i,
               problemsToDownload, skipped, alreadyDownloaded, wstate, snap,
               verdict, fetched, loadedCompleted, loadedFailed, prevCompleted,
               prevDisk>>

itemInputs == <<session, problem, paid, itemConfig, answers>>

\* One entry of `issued`: the operation and, for a per-language one, the index
\* of the language in the list it was taken from.
Op(name, k) == [op |-> name, lang |-> k]

\* What follows a detail fetch that returned a document (lines 848-868).
StepAfterDetail_subResources == "official"
StepAfterDetail == "transcode"

\* lines 833-846: retryAsync(getProblemDescription) throws (no session file,
\* no question in the answer), or the document is empty, or the detail is there.
ItemFetchDetail ==
    /\ dpc = "fetch"
    /\ IF ~session THEN thrown' = NO_COOKIES /\ dpc' = "thrown"
       ELSE IF ~answers.question
            THEN thrown' = "Failed to fetch problem" /\ dpc' = "thrown"
       ELSE IF ~answers.content
            THEN thrown' = EmptyContent(problem, paid).message /\ dpc' = "thrown"
       ELSE thrown' = thrown /\ dpc' = StepAfterDetail
    /\ issued' = Append(issued, Op("detail", 0))
    /\ UNCHANGED <<batchVars, auxVars, retryVars, mediaVars, itemInputs, lang,
                   downloadStatus, itemVerdict, statusIcon>>

\* lines 867-868: processHtmlBody and convertHtmlToMarkdown; the latter throws
\* a TypeError on an empty <pre><code></code></pre> block (line 1108).
ItemTranscode ==
    /\ dpc = "transcode"
    /\ IF answers.emptyCode
       THEN thrown' = TYPE_ERROR /\ dpc' = "thrown"
       ELSE thrown' = thrown /\ dpc' = "official"
    /\ issued' = Append(issued, Op("transcode", 0))
    /\ UNCHANGED <<batchVars, auxVars, retryVars, mediaVars, itemInputs, lang,
                   downloadStatus, itemVerdict, statusIcon>>

\* line 953: downloadStatus.communitySolutions.total--
NoSolution_asFailure(cs) == cs
NoSolution(cs) == [cs EXCEPT !.total = @ - 1]

\* line 950: downloadStatus.communitySolutions.count++ (and line 935)
Achieved_twice(cs) == [cs EXCEPT !.count = @ + 2]
Achieved(cs) == [cs EXCEPT !.count = @ + 1]

\* lines 902-921: the official solution, then the totals of the language loop.
ItemOfficial ==
    /\ dpc = "official"
    /\ downloadStatus' =
          [downloadStatus EXCEPT
              !.officialSolution =
                  IF itemConfig.fetchOfficialSolution
                     /\ answers.official = "solution"
                  THEN [count |-> 1, total |-> 1]
                  ELSE [count |-> 0, total |-> 0],
              !.templates.total = Len(answers.codeSnippets),
              !.communitySolutions.total = Len(answers.codeSnippets)]
    /\ lang' = 1
    /\ dpc' = "langs"
    /\ issued' = IF itemConfig.fetchOfficialSolution
                 THEN Append(issued, Op("official", 0)) ELSE issued
    /\ UNCHANGED <<batchVars, auxVars, retryVars, mediaVars, itemInputs, thrown,
                   itemVerdict, statusIcon>>

\* lines 926-956: one iteration of the language loop.
ItemLanguage ==
    /\ dpc = "langs"
    /\ lang <= Len(answers.codeSnippets)
    /\ LET snippet == answers.codeSnippets[lang]
           t == downloadStatus.templates
           c == downloadStatus.communitySolutions
       IN downloadStatus' =
            [downloadStatus EXCEPT
                !.templates =
                    IF itemConfig.fetchTemplates /\ snippet.code
                    THEN Achieved(t) ELSE t,
                !.communitySolutions =
                    IF ~itemConfig.fetchSolutions THEN c
                    ELSE IF snippet.discuss = "success" THEN Achieved(c)
                    ELSE IF snippet.discuss = "no_solution" THEN NoSolution(c)
                    ELSE c]
    /\ issued' = issued
                 \o (IF itemConfig.fetchTemplates /\ answers.codeSnippets[lang].code
                     THEN <<Op("template", lang)>> ELSE <<>>)
                 \o (IF itemConfig.fetchSolutions
                     THEN <<Op("community", lang)>> ELSE <<>>)
    /\ lang' = lang + 1
    /\ UNCHANGED <<batchVars, auxVars, retryVars, mediaVars, itemInputs, dpc, thrown,
                   itemVerdict, statusIcon>>

\* lines 959-964: the loop is over, downloadStatus is returned.
ItemReturn ==
    /\ dpc = "langs"
    /\ lang > Len(answers.codeSnippets)
    /\ downloadStatus' = [downloadStatus EXCEPT !.description.success = TRUE]
    /\ dpc' = "returned"
    /\ UNCHANGED <<batchVars, auxVars, retryVars, mediaVars, itemInputs, lang, thrown,
                   itemVerdict, issued, statusIcon>>

\* lines 1386-1428: downloadWorker prints the status line and evaluates the
\* returned status.
ItemEvaluate ==
    /\ dpc = "returned"
    /\ LET ok == isFullyComplete(downloadStatus, itemConfig)
       IN /\ itemVerdict' = IF ok THEN "complete" ELSE "partial"
          /\ completedProblems' =
                IF ok THEN completedProblems \cup {problem.id}
                ELSE completedProblems
          /\ failedProblems' =
                IF ok
                THEN (IF problem.id \in DOMAIN failedProblems
                      THEN DeleteFailed(failedProblems, problem.id)
                      ELSE failedProblems)
                ELSE SetFailed(failedProblems, problem.id,
                               [reasons |-> failureReasons(downloadStatus,
                                                           itemConfig)])
          /\ completed' = IF ok THEN completed + 1 ELSE completed
          /\ failed' = IF ok THEN failed ELSE failed + 1
    /\ statusIcon' = displayDownloadStatus(downloadStatus)
    /\ dpc' = "evaluated"
    /\ UNCHANGED <<batchRest, auxVars, shouldStop, retryVars, mediaVars, itemInputs, lang,
                   downloadStatus, thrown, issued>>

\* lines 1436-1458: downloadWorker catches what downloadProblem threw.
ItemCatch ==
    /\ dpc = "thrown"
    /\ IF IsSessionExpired(thrown)
       THEN /\ shouldStop' = TRUE
            /\ itemVerdict' = "auth"
            /\ UNCHANGED <<failedProblems, failed>>
       ELSE /\ failed' = failed + 1
            /\ failedProblems' = SetFailed(failedProblems, problem.id,
                                           [reasons |-> ExceptionReasons])
            /\ itemVerdict' = "exception"
            /\ UNCHANGED shouldStop
    /\ dpc' = "evaluated"
    /\ UNCHANGED <<batchRest, auxVars, completedProblems, completed, retryVars, mediaVars,
                   itemInputs, lang, downloadStatus, thrown, issued, statusIcon>>

NextItem ==
    \/ ItemFetchDetail
    \/ ItemTranscode
    \/ ItemOfficial
    \/ ItemLanguage
    \/ ItemReturn
    \/ ItemEvaluate
    \/ ItemCatch

SpecItem == InitItem /\ [][NextItem]_vars

\* What the catalog-level model takes as the answer for this problem.
Langs == DOMAIN answers.codeSnippets
Summarized ==
    [session |-> session, question |-> answers.question,
     content |-> answers.content,
     nLangs |-> Len(answers.codeSnippets),
     nCode |-> Cardinality({k \in Langs : answers.codeSnippets[k].code}),
     official |-> answers.official = "solution",
     transcodes |-> ~answers.emptyCode,
     nSuccess |-> Cardinality({k \in Langs :
                                  answers.codeSnippets[k].discuss = "success"}),
     nNoSol |-> Cardinality({k \in Langs :
                                answers.codeSnippets[k].discuss = "no_solution"})]

\* The closed form downloadProblem used by Spec gives what the steps give.
StepsAgreeWithClosedForm ==
    LET r == downloadProblem(problem, Summarized, itemConfig, paid)
    IN /\ dpc = "returned" => r = downloadStatus
       /\ dpc = "thrown" => r = Throw(thrown)

\* ======================================================================= claims
Running == {p \in Positions : wstate[p] = "running"}
Finished(p) == wstate[p] \in {"writing", "done", "exited"}
RaisesAuthError(p) == Result(p) = Throw(SESSION_EXPIRED)
AuthErrorObserved == \E p \in fetched : Finished(p) /\ RaisesAuthError(p)
RunEnded == pc \in {"done", "exited"}

\* C1: in batch mode, whatever the configured concurrency c >= 1 and the catalog,
\* never more than c item pipelines (downloadProblem calls started by a worker
\* and not yet returned) are executing at the same time.
C1_ConcurrencyBound == Cardinality(Running) <= CONFIG.concurrency

\* The bound bites: more items are waiting than the concurrency allows, and
\* exactly `concurrency` pipelines are executing.
C1_Witness ==
    /\ Len(problemsToDownload) > CONFIG.concurrency
    /\ Cardinality(Running) = CONFIG.concurrency

\* C2: once a worker has observed a SESSION_EXPIRED error, no further pipeline
\* is started in that run (no item of a later chunk is dispatched).
C2_NoDispatchAfterAuthError ==
    [][(AuthErrorObserved /\ run' = run) => fetched' = fetched]_vars

\* A run stopped by a SESSION_EXPIRED error with a later chunk left undispatched.
C2_Witness ==
    /\ pc = "exited"
    /\ AuthErrorObserved
    /\ i + CONFIG.concurrency < Len(problemsToDownload)
    /\ \E p \in Range(problemsToDownload) : p \notin fetched

\* C3: when one item of a chunk raises a SESSION_EXPIRED error, every other item
\* of that chunk (one whose own pipeline ends completed or failed) still runs to
\* completion and has its progress write finished before the run ends.
C3_ChunkFinishesBeforeExit ==
    pc = "exited" =>
        \A p \in CurrentBatch : ~RaisesAuthError(p) => wstate[p] = "done"

\* C4: an item whose id is in the completed set loaded from the progress file at
\* the start of a run has no pipeline started in that run.
C4_CompletedNeverDispatched ==
    \A p \in fetched : problems[p].id \notin loadedCompleted

\* A finished run that loaded a completed id of the catalog and fetched others.
C4_Witness ==
    /\ pc = "done"
    /\ fetched # {}
    /\ \E p \in Positions : ~IsSkipped(p) /\ problems[p].id \in loadedCompleted

\* C5: when an item present in the failed map is evaluated as fully complete,
\* the same update adds its id to completed and removes it from failed, and the
\* snapshot handed to the progress write for that item lists it as completed
\* and not as failed.
C5_SuccessClearsFailed ==
    [][\A p \in Positions :
          (/\ verdict[p] = "none"
           /\ verdict'[p] = "complete"
           /\ problems[p].id \in DOMAIN failedProblems)
          => (/\ problems[p].id \in completedProblems'
              /\ problems[p].id \notin DOMAIN failedProblems'
              /\ problems[p].id \in snap'[p].completed
              /\ problems[p].id \notin DOMAIN snap'[p].failed)]_vars

\* An item that was loaded as failed, was evaluated complete, and whose progress
\* write is on disk.
C5_Witness ==
    \E p \in Positions :
        /\ problems[p].id \in loadedFailed
        /\ verdict[p] = "complete"
        /\ wstate[p] = "done"
        /\ disk = snap[p]
        /\ problems[p].id \in disk.completed
        /\ problems[p].id \notin DOMAIN disk.failed

\* C6: in a run that starts from a progress file with completed and failed
\* disjoint, no id is at once in the completed set and in the failed map, in
\* memory or in the progress file, also for a catalog that repeats an id.
C6_CompletedFailedDisjoint ==
    run = 1 =>
        /\ completedProblems \cap DOMAIN failedProblems = {}
        /\ LoadCompleted(disk) \cap DOMAIN LoadFailed(disk) = {}

\* C7: a second run against the unchanged catalog, with every fetch answering
\* as in the first, ends with the same completed set in the progress file as the
\* first run, and fetches no item that the first run completed.
C7_SecondRunIdempotent ==
    (run = 2 /\ RunEnded) =>
        /\ LoadCompleted(disk) = LoadCompleted(prevDisk)
        /\ \A p \in fetched : problems[p].id \notin prevCompleted

\* The calls and sleeps of a retryAsync call whose k-th attempt is the last:
\* call 1, sleep d*1, call 2, sleep d*2, ..., call k.
ExpectedLog(k, d) ==
    [j \in 1..(2 * k - 1) |->
        IF j % 2 = 1 THEN Call((j + 1) \div 2) ELSE Sleep(d * (j \div 2))]

\* C8: when fn first succeeds on attempt k (1 <= k <= maxAttempts), retryAsync
\* returns the value of that attempt, fn has been called exactly k times, and
\* exactly k-1 sleeps of delay*1, ..., delay*(k-1) happened, each between the
\* failed attempt and the next one.
C8_RetrySuccess ==
    (rpc = "returned" /\ outcome.kind = "return") =>
        /\ calls <= retries
        /\ outcome.of = calls
        /\ log = ExpectedLog(calls, delay)

\* fn failed twice and succeeded on the third attempt.
C8_Witness ==
    /\ rpc = "returned"
    /\ outcome = [kind |-> "return", of |-> 3]
    /\ calls = 3
    /\ Len(log) = 5

\* C9: with maxAttempts >= 1, when fn fails on every attempt retryAsync throws
\* the error of the last attempt, after exactly maxAttempts calls of fn and with
\* no sleep after the last one; it never ends without a value or an error.
C9_RetryExhausted ==
    /\ rpc = "thrown" =>
          /\ calls = retries
          /\ outcome = [kind |-> "throw", of |-> retries]
          /\ log = ExpectedLog(retries, delay)
    /\ (rpc = "returned" /\ retries >= 1) => outcome.kind = "return"
    /\ (rpc = "sleeping" /\ retries >= 1) => calls < retries

\* fn failed on each of the three default attempts.
C9_Witness ==
    /\ rpc = "thrown"
    /\ retries = MAX_RETRIES
    /\ calls = MAX_RETRIES
    /\ outcome = [kind |-> "throw", of |-> MAX_RETRIES]

\* C10: for a document that references the same remote URL more than once, the
\* rewriter goes through retryAsync exactly once for that URL, and every
\* occurrence of the URL is rewritten to the same path.
C10_MediaDedup ==
    mpc = "done" =>
        \A p, q \in DOMAIN doc :
            (p # q /\ fullUrl(doc[p]) = fullUrl(doc[q])) =>
                /\ passes[fullUrl(doc[p])] = 1
                /\ (doc[p] = doc[q] => out[p] = out[q])

\* C11: when retryAsync gives up on an image reference (every attempt failed),
\* the rewriter still returns a document (the catch of MediaFailed lets no
\* error reach downloadProblem, so the description succeeds), and every
\* occurrence of that reference in the returned document points at the
\* original remote URL.
C11_FailedMediaDegrades ==
    mpc = "done" =>
        \A p \in DOMAIN doc :
            doc[p] \in gaveUp => out[p] = RemotePath(fullUrl(doc[p]))

\* The same holds when no reference is repeated in the document.
C11_DistinctRefsDegrade ==
    (\A p, q \in DOMAIN doc : p # q => doc[p] # doc[q]) => C11_FailedMediaDegrades

\* The kinds of sub-resource and whether the configuration requested each.
Requested ==
    [templates |-> itemConfig.fetchTemplates,
     officialSolution |-> itemConfig.fetchOfficialSolution,
     communitySolutions |-> itemConfig.fetchSolutions]

AllRequestedAchieved ==
    \A k \in DOMAIN Requested :
        Requested[k] => downloadStatus[k].count = downloadStatus[k].total

\* C12: the item is evaluated 'complete', and its id added to completed, if and
\* only if downloadProblem returned a status whose description succeeded and
\* in which every requested kind (templates, official solution, community
\* solutions) has count = total; the counts of a kind that was not requested
\* play no part.
C12_VerdictIffRequestedComplete ==
    dpc = "evaluated" =>
        LET expected == /\ thrown = ""
                        /\ downloadStatus.description.success
                        /\ AllRequestedAchieved
        IN /\ (itemVerdict = "complete") <=> expected
           /\ (problem.id \in completedProblems) <=> expected
           /\ (problem.id \in DOMAIN failedProblems) <=>
                  (~expected /\ itemVerdict # "auth")

\* An item evaluated complete although a kind that was not requested has
\* count # total (templates 0 of n).
C12_Witness ==
    /\ dpc = "evaluated"
    /\ itemVerdict = "complete"
    /\ problem.id \in completedProblems
    /\ ~itemConfig.fetchTemplates
    /\ itemConfig.fetchSolutions
    /\ downloadStatus.templates.count # downloadStatus.templates.total

\* The languages the loop has been through.
Seen == 1..Min(lang - 1, Len(answers.codeSnippets))
SeenWith(st) == {k \in Seen : answers.codeSnippets[k].discuss = st}

\* C13: each language whose getDiscussSolution status is 'no_solution' lowers
\* communitySolutions.total by one and leaves count alone, so an item whose
\* only languages without a community solution are 'no_solution' ones is
\* evaluated complete (its other requested kinds being complete).
C13_NoSolutionLowersTotal ==
    (dpc \in {"langs", "returned", "evaluated"} /\ thrown = ""
        /\ itemConfig.fetchSolutions) =>
        /\ downloadStatus.communitySolutions.total =
               Len(answers.codeSnippets) - Cardinality(SeenWith("no_solution"))
        /\ downloadStatus.communitySolutions.count =
               Cardinality(SeenWith("success"))
        /\ (/\ dpc = "evaluated"
            /\ SeenWith("error") = {}
            /\ itemConfig.fetchTemplates =>
                   \A k \in Seen : answers.codeSnippets[k].code)
           => itemVerdict = "complete"

\* Three languages, one of them without any community solution: total 2,
\* count 2, evaluated complete.
C13_Witness ==
    /\ dpc = "evaluated"
    /\ itemConfig.fetchSolutions
    /\ itemConfig.fetchTemplates
    /\ itemConfig.fetchOfficialSolution
    /\ Len(answers.codeSnippets) = 3
    /\ Cardinality(SeenWith("no_solution")) = 1
    /\ downloadStatus.communitySolutions = [count |-> 2, total |-> 2]
    /\ downloadStatus.templates = [count |-> 3, total |-> 3]
    /\ downloadStatus.officialSolution = [count |-> 1, total |-> 1]
    /\ itemVerdict = "complete"

Locked == {p \in Positions : problems[p].locked}
SetupDone == pc # "start"

\* C14: with a non-premium account every locked catalog item is filtered out
\* before dispatch: downloadProblem is never called for it, it counts once in
\* `skipped`, and the run adds its id to neither completed nor failed; the
\* unlocked items of the catalog that are not yet completed are all processed.
C14_LockedSkipped ==
    (~isPremiumUser /\ SetupDone) =>
        /\ skipped = Cardinality(Locked)
        /\ \A p \in Locked :
              /\ p \notin fetched
              /\ wstate[p] = "idle"
              /\ verdict[p] = "none"
              /\ (\A q \in Positions \ Locked : problems[q].id # problems[p].id)
                 => /\ problems[p].id \in completedProblems
                         <=> problems[p].id \in loadedCompleted
                    /\ problems[p].id \in DOMAIN failedProblems
                         <=> problems[p].id \in loadedFailed
        /\ pc = "done" =>
              \A p \in Positions \ Locked :
                  problems[p].id \notin loadedCompleted
                  => (p \in fetched /\ verdict[p] \in {"complete", "partial",
                                                       "exception"})

\* Catalog [{id 1, unlocked}, {id 2, locked}], non-premium account: the run is
\* over, item 1 was downloaded and is completed, item 2 was never fetched.
C14_Witness ==
    /\ ~isPremiumUser
    /\ pc = "done"
    /\ run = 1
    /\ Len(problems) = 2
    /\ ~problems[1].locked /\ problems[2].locked
    /\ problems[1].id # problems[2].id
    /\ fetched = {1}
    /\ verdict[1] = "complete"
    /\ skipped = 1
    /\ problems[2].id \notin completedProblems
    /\ problems[2].id \notin DOMAIN failedProblems

\* C15: every catalog item whose id is in the completed set loaded from the
\* progress file is filtered out before dispatch and counted in
\* `alreadyDownloaded` and in no other tally, whatever its lock flag and the
\* account.
C15_CompletedCountedAlreadyDone ==
    SetupDone =>
        LET done == {p \in Positions : problems[p].id \in loadedCompleted}
        IN /\ \A p \in done : p \notin fetched
           /\ alreadyDownloaded = Cardinality(done)
           /\ skipped = Cardinality({p \in Positions \ done : IsSkipped(p)})

\* The same, for the items the lock filter lets through.
C15_UnlockedCompletedCounted ==
    SetupDone =>
        LET done == {p \in Positions : /\ problems[p].id \in loadedCompleted
                                       /\ ~IsSkipped(p)}
        IN /\ \A p \in done : p \notin fetched
           /\ alreadyDownloaded = Cardinality(done)

\* The progress of position p as the file d holds it.
Reflected(p, d) ==
    /\ verdict[p] = "complete" => problems[p].id \in LoadCompleted(d)
    /\ verdict[p] \in {"partial", "exception"}
          => problems[p].id \in DOMAIN LoadFailed(d)
UniqueId(p) == \A q \in Positions \ {p} : problems[q].id # problems[p].id
Returned == {p \in Positions : wstate[p] = "done"}

\* C16: the progress file is rewritten after every processed item with the full
\* completed set and failed map, so a crash at any instant loses at most the
\* update of an item still in flight: every item whose worker had returned
\* before the crash is reflected in the file the crash leaves.
C16_FinishedItemsDurable ==
    pc = "crashed" => \A p \in Returned : Reflected(p, disk)

\* With one worker at a time and no write cut short, the file has them all.
C16_SequentialUncutDurable ==
    (CONFIG.concurrency = 1 /\ disk.state # "corrupt") => C16_FinishedItemsDurable

\* C17: the workers of a chunk update the progress one at a time, and once all
\* of them have finished persisting the file holds the update of every item of
\* the chunk, in whatever order the concurrent file writes complete.
C17_ChunkUpdatesSerialized ==
    (pc = "await" /\ CurrentBatch \subseteq Returned) =>
        \A p \in CurrentBatch : UniqueId(p) => Reflected(p, disk)

\* With one worker per chunk the file holds every update.
C17_SequentialChunks ==
    CONFIG.concurrency = 1 => C17_ChunkUpdatesSerialized

\* C18: when the process crashes in the middle of a write of the progress
\* file, the file the next run finds is the complete previous content or the
\* complete new content, never a partial or truncated file.
C18_NoPartialFile ==
    pc = "crashed" =>
        /\ disk.state # "corrupt"
        /\ disk \in {prevDisk} \cup InitialFiles(problems)
                    \cup {snap[p] : p \in Positions}

\* The worker of position p treated what downloadProblem threw as fatal: it set
\* shouldStop, the run never leaves p's chunk (it ends by process.exit), and
\* the worker did not record the item as a failure.
HaltsRun(p) ==
    /\ verdict[p] = "auth"
    /\ shouldStop
    /\ pc \in {"await", "exited"}
    /\ p \in CurrentBatch
    /\ failed = Cardinality({q \in Positions :
                                verdict[q] \in {"partial", "exception"}})
    /\ problems[p].id \in DOMAIN snap[p].failed
          => \/ problems[p].id \in loadedFailed
             \/ \E q \in Positions \ {p} :
                    /\ problems[q].id = problems[p].id
                    /\ verdict[q] \in {"partial", "exception"}

\* C19: when the detail of a non-locked item comes back with empty content
\* (the session file being present), downloadProblem throws SESSION_EXPIRED,
\* which is fatal: the worker stops the run and does not record the item as a
\* failed item.
C19_EmptyDocumentIsAuthError ==
    \A p \in Positions :
        (/\ problems[p].remote = "expired"
         /\ ~problems[p].locked
         /\ Finished(p))
        => HaltsRun(p)

\* A run ended by the empty detail of a non-locked item, whose id is not in
\* the failed map of the progress file.
C19_Witness ==
    \E p \in Positions :
        /\ problems[p].remote = "expired"
        /\ ~problems[p].locked
        /\ wstate[p] = "exited"
        /\ pc = "exited"
        /\ disk = snap[p]
        /\ problems[p].id \notin DOMAIN disk.failed
        /\ problems[p].id \notin disk.completed

\* C20: when the session file is absent as an item's detail fetch is issued
\* during a batch run, the error is fatal: the run halts, no further chunk is
\* dispatched, and the item is not recorded as a per-item failure.
C20_NoCredentialHaltsRun ==
    \A p \in Positions :
        (problems[p].remote = NoSession /\ Finished(p)) => HaltsRun(p)

\* C21: a requested sub-resource fetch (official solution, or the community
\* solution of one language) that meets a network error on every attempt is
\* recorded as a failure of that sub-resource only: its kind ends with
\* count < total, the item is not evaluated complete, and the remaining
\* sub-resources of the item are still fetched (the language loop runs to its
\* end).
C21_SubResourceFailureRecorded ==
    (dpc = "evaluated" /\ thrown = "") =>
        /\ (itemConfig.fetchOfficialSolution /\ answers.official = "error") =>
              /\ downloadStatus.officialSolution.count
                     < downloadStatus.officialSolution.total
              /\ itemVerdict # "complete"
        /\ (itemConfig.fetchSolutions /\ SeenWith("error") # {}) =>
              /\ downloadStatus.communitySolutions.count
                     < downloadStatus.communitySolutions.total
              /\ itemVerdict # "complete"
        /\ lang = Len(answers.codeSnippets) + 1

\* The same for the community solutions alone.
C21_CommunityFailureRecorded ==
    answers.official # "error" => C21_SubResourceFailureRecorded

\* retryAsync is over and every request the function issued met a network
\* error.
GivenUpOnNetwork ==
    /\ rpc \in {"returned", "thrown"}
    /\ requests >= 1
    /\ failures = requests

\* C22: a sub-resource query (official solution, community solution of a
\* language) whose request fails with a network error is attempted again by
\* retryAsync: the request has been issued MAX_RETRIES times when the
\* sub-resource is given up.
C22_SubResourceRetried ==
    (qkind \in {"official", "community"} /\ GivenUpOnNetwork)
        => requests = MAX_RETRIES

\* The detail query, whose function rethrows, is attempted MAX_RETRIES times.
C22_DetailRetried ==
    (qkind = "detail" /\ GivenUpOnNetwork) => requests = MAX_RETRIES

\* The worker at position p takes the exception branch of lines 1451-1464.
CaughtOther(p) ==
    /\ wstate[p] = "running"
    /\ wstate'[p] = "writing"
    /\ verdict'[p] = "exception"

\* The write handed over by the worker at position p completes.
Written(p) ==
    /\ wstate[p] = "writing"
    /\ wstate'[p] = "done"

\* C23: an item whose pipeline raises an error that is not an AuthError is put
\* in the failed map with a non-empty reasons list, the failed tally goes up by
\* one, the progress file is rewritten with a snapshot that lists the item as
\* failed, the run is not stopped, and a run that nothing stopped has
\* dispatched every chunk when it ends.
C23_ExceptionAbsorbed ==
    /\ [][\A p \in Positions :
            /\ CaughtOther(p) =>
                  /\ problems[p].id \in DOMAIN failedProblems'
                  /\ failedProblems'[problems[p].id].reasons # <<>>
                  /\ failed' = failed + 1
                  /\ completedProblems' = completedProblems
                  /\ shouldStop' = shouldStop
                  /\ snap'[p] = Snapshot(completedProblems', failedProblems')
            /\ (Written(p) /\ verdict[p] = "exception") =>
                  /\ Readable(disk')
                  /\ problems[p].id \in DOMAIN disk'.failed
                  /\ disk'.failed[problems[p].id].reasons # <<>>
         ]_vars
    /\ []((pc = "done" /\ ~shouldStop) => fetched = Range(problemsToDownload))

\* A run of one-item chunks in which the first item raised a non-Auth error and
\* the second was dispatched afterwards, ended.
C23_Witness ==
    /\ pc = "done"
    /\ CONFIG.concurrency = 1
    /\ Len(problems) >= 2
    /\ problems[1].remote = "notfound"
    /\ verdict[1] = "exception"
    /\ wstate[1] = "done"
    /\ 2 \in fetched
    /\ failed >= 1

\* The workers whose pipeline or progress-file write is under way.
Busy == {p \in Positions : wstate[p] \in {"running", "writing"}}

\* The items of the chunks before the current one / after it.
EarlierChunks == {problemsToDownload[k] : k \in 1..Min(i, Len(problemsToDownload))}
LaterChunks ==
    {problemsToDownload[k] :
        k \in (i + CONFIG.concurrency + 1)..Len(problemsToDownload)}

\* C24: chunks run strictly one after another: whatever is running or writing
\* belongs to the current chunk, every item of the earlier chunks has finished
\* its pipeline and its write, and no item of a later chunk has started.
C24_ChunksOneAfterAnother ==
    pc \in {"loop", "await"} =>
        /\ Busy \subseteq CurrentBatch
        /\ pc = "loop" => Busy = {}
        /\ \A p \in EarlierChunks : wstate[p] = "done"
        /\ \A p \in LaterChunks : wstate[p] = "idle"

\* The second chunk is in flight after the first finished.
C24_Witness ==
    /\ pc = "await"
    /\ i >= 1
    /\ Busy # {}
    /\ EarlierChunks # {}
    /\ LaterChunks = {}

\* The items the progress file listed as failed and not as completed when the
\* run loaded it, and that the lock filter lets through.
FailedBefore ==
    {p \in Positions : /\ problems[p].id \in loadedFailed
                       /\ problems[p].id \notin loadedCompleted
                       /\ ~IsSkipped(p)}

\* C25: an item the progress file lists as failed is dispatched again by the
\* next run and processed from scratch: its verdict and its new failure
\* record are those of the fresh downloadStatus of this run alone, nothing of
\* the earlier record is kept.
C25_FailedRestarted ==
    SetupDone =>
        \A p \in FailedBefore :
            /\ p \in Range(problemsToDownload)
            /\ verdict[p] = "complete" =>
                  /\ Result(p).kind = "status"
                  /\ isFullyComplete(Result(p), CONFIG)
            /\ verdict[p] = "partial" =>
                  /\ Result(p).kind = "status"
                  /\ ~isFullyComplete(Result(p), CONFIG)
                  /\ wstate[p] = "writing" =>
                        snap[p].failed[problems[p].id] =
                            [reasons |-> failureReasons(Result(p), CONFIG)]
            /\ (pc = "done" /\ ~shouldStop) => p \in fetched

\* The second run has evaluated again an item the file of its first run lists
\* as failed, and has written a record that is not the earlier one.
C25_Witness ==
    /\ run = 2
    /\ \E p \in FailedBefore :
          /\ verdict[p] = "partial"
          /\ wstate[p] = "writing"
          /\ problems[p].id \in DOMAIN prevDisk.failed
          /\ snap[p].failed[problems[p].id] # PriorFailure

\* The items of this run that ended failed, by evaluation or by exception, and
\* whose worker has returned.
FailedItems ==
    {p \in Positions : verdict[p] \in {"partial", "exception"}
                       /\ wstate[p] = "done"}

\* C26: whenever an item fails during a batch download (partial result or
\* exception), the error is logged to the file downloads/error.log.
C26_FailureLogged ==
    FailedItems # {} => errorLog # <<>>

\* The sub-resource operations of an item, and the per-language ones.
SubResourceOps == {"official", "template", "community"}
SubResources == {k \in DOMAIN issued : issued[k].op \in SubResourceOps}
OpsOf(name) == SelectSeq(issued, LAMBDA e : e.op = name)

\* The per-language operations the list discovered by the detail fetch calls
\* for, up to language n.
RECURSIVE LanguageOps(_)
LanguageOps(n) ==
    IF n = 0 THEN <<>>
    ELSE LanguageOps(n - 1)
         \o (IF itemConfig.fetchTemplates /\ answers.codeSnippets[n].code
             THEN <<Op("template", n)>> ELSE <<>>)
         \o (IF itemConfig.fetchSolutions
             THEN <<Op("community", n)>> ELSE <<>>)

\* C27: within one item the operations run in the order detail fetch, document
\* transcoding, sub-resources: nothing is issued before the detail fetch, no
\* sub-resource operation is issued unless the detail fetch returned a
\* non-empty document and the document was transcoded, and the per-language
\* operations go through the languages of that detail answer, in its order.
C27_DetailTranscodeSubResources ==
    /\ issued # <<>> => issued[1] = Op("detail", 0)
    /\ Len(OpsOf("detail")) <= 1
    /\ Len(OpsOf("transcode")) <= 1
    /\ Len(issued) >= 2 =>
          /\ issued[2] = Op("transcode", 0)
          /\ session /\ answers.question /\ answers.content
    /\ SubResources # {} =>
          /\ \A k \in SubResources : k >= 3
          /\ ~answers.emptyCode
    /\ \A k \in DOMAIN issued :
          issued[k].op = "official" =>
              (k = 3 /\ itemConfig.fetchOfficialSolution)
    /\ dpc \in {"langs", "returned", "evaluated"} /\ thrown = "" =>
          SelectSeq(issued, LAMBDA e : e.op \in {"template", "community"})
              = LanguageOps(lang - 1)
    /\ dpc \in {"returned", "evaluated"} /\ thrown = "" =>
          lang - 1 = Len(answers.codeSnippets)

\* An item with two languages returned after the official solution, the
\* templates and the community solutions were all gone through.
C27_Witness ==
    /\ dpc = "returned"
    /\ Len(answers.codeSnippets) >= 2
    /\ Len(OpsOf("official")) = 1
    /\ Len(OpsOf("template")) >= 1
    /\ Len(OpsOf("community")) >= 2

\* ceil(t / limit)
PagesFor(t) == (t + limit - 1) \div limit

\* C28: listProblems issues its requests with skip = 0, 100, 200, ..., stops
\* as soon as skip >= the total of the last response, has issued
\* max(1, ceil(total / 100)) requests when it returns, and returns every
\* question of the catalog exactly once, in order, when the server fills
\* every page but the last.
C28_PagesThroughCatalog ==
    /\ \A k \in DOMAIN pages : pages[k] = (k - 1) * limit
    /\ lpc = "loop" /\ pages # <<>> => skip < total
    /\ lpc = "returned" =>
          /\ skip >= total
          /\ total = catalogSize
          /\ Len(pages) = IF PagesFor(total) > 1 THEN PagesFor(total) ELSE 1
          /\ pageCap >= limit => listed = [k \in 1..catalogSize |-> k]

\* A catalog of more than two full pages has been listed.
C28_Witness ==
    /\ lpc = "returned"
    /\ catalogSize > 2 * limit
    /\ pageCap = limit
    /\ Len(pages) = 3
    /\ Len(listed) = catalogSize

\* The name each kind goes by in a reason.
ReasonKind ==
    [templates |-> "templates", officialSolution |-> "official",
     communitySolutions |-> "community"]

\* The reasons of the failure record of the item, and those about one kind.
Reasons == failedProblems[problem.id].reasons
ReasonsAbout(k) == SelectSeq(Reasons, LAMBDA e : e.kind = ReasonKind[k])

\* C29: a failure record written by the completion evaluation (status
\* returned, item not complete) has a non-empty reasons list that holds
\* exactly one reason, stating count/total, for each requested kind with
\* count < total, and none for a kind that was not requested or that has
\* count = total.
C29_OneReasonPerShortKind ==
    itemVerdict = "partial" =>
        /\ problem.id \in DOMAIN failedProblems
        /\ Reasons # <<>>
        /\ \A n \in DOMAIN Reasons :
              \E k \in DOMAIN Requested : Reasons[n].kind = ReasonKind[k]
        /\ \A k \in DOMAIN Requested :
              IF Requested[k] /\ downloadStatus[k].count < downloadStatus[k].total
              THEN ReasonsAbout(k) =
                       <<[kind |-> ReasonKind[k],
                          count |-> downloadStatus[k].count,
                          total |-> downloadStatus[k].total]>>
              ELSE ReasonsAbout(k) = <<>>

\* A partial item with a reason for a requested kind and none for a kind that
\* falls short but was not requested.
C29_Witness ==
    /\ itemVerdict = "partial"
    /\ itemConfig.fetchSolutions
    /\ ~itemConfig.fetchTemplates
    /\ downloadStatus.templates.count < downloadStatus.templates.total
    /\ Len(ReasonsAbout("communitySolutions")) = 1
    /\ ReasonsAbout("templates") = <<>>

\* The fenced blocks of the output, in order, and what the code blocks of the
\* input should have become.
FencesOut == SelectSeq(markdown, LAMBDA t : t.c = "fence")
FencesExpected == [j \in DOMAIN Blocks(html) |-> Fence(0, Blocks(html)[j])]

\* C30: convertHtmlToMarkdown puts a placeholder for every code block before
\* any other rewriting and re-inserts the blocks last, so the k-th code block
\* of the input is the k-th fenced block of the output, its content untouched
\* by the steps in between.
C30_CodeBlocksPreserved ==
    /\ cpc # "thrown"
    /\ cpc = "returned" => FencesOut = FencesExpected

\* The same for documents without character references whose code blocks hold
\* plain text.
C30_PlainBlocksPreserved ==
    (/\ \A n \in DOMAIN html : html[n] \notin {EntLt, EntGt, Lt, Gt}
     /\ \A n \in DOMAIN html : IsPre(html[n]) => html[n].v = <<"c">>)
        => C30_CodeBlocksPreserved

\* The text of the j-th block as extracted, with nothing but its emphasis
\* tags taken out.
OnlyEmphasisRemoved == [j \in DOMAIN RawBlocks(html) |->
                           EmphasisRemoved(RawBlocks(html)[j])]

\* C31: inside an extracted code block only the inline emphasis markers
\* (strong and em tags) are removed; any other tag-like text of the block is
\* kept verbatim in the stored block.
C31_OnlyEmphasisStripped ==
    cpc \in {"rewrite", "strip", "reinsert", "returned"} =>
        preBlocks = OnlyEmphasisRemoved

\* The emphasis tags themselves never reach a stored block.
C31_EmphasisStripped ==
    \A j \in DOMAIN preBlocks : \A n \in DOMAIN preBlocks[j] :
        preBlocks[j][n] \notin {"<strong>", "</strong>", "<em>", "</em>"}

\* The run reached the summary without an AuthError.
NormalEnd == pc = "done" /\ ~shouldStop

\* The four classes of the summary.
SkippedItems == {p \in Positions : IsSkipped(p)}
AlreadyDoneItems ==
    {p \in Positions \ SkippedItems : problems[p].id \in loadedCompleted}
SucceededItems == {p \in Positions : verdict[p] = "complete"}
FailedNow == {p \in Positions : verdict[p] \in {"partial", "exception"}}

\* C32: at the normal end of a batch run the tallies of the summary partition
\* the catalog: each item is counted in exactly one of succeeded, already
\* done, failed, skipped, and the four tallies add up to the catalog size.
C32_TalliesPartitionCatalog ==
    NormalEnd =>
        /\ completed = Cardinality(SucceededItems)
        /\ alreadyDownloaded = Cardinality(AlreadyDoneItems)
        /\ failed = Cardinality(FailedNow)
        /\ skipped = Cardinality(SkippedItems)
        /\ \A p \in Positions :
              Cardinality({S \in {SkippedItems, AlreadyDoneItems,
                                  SucceededItems, FailedNow} : p \in S}) = 1
        /\ completed + alreadyDownloaded + failed + skipped = Len(problems)

\* A run ended normally with a skipped item beside a processed one.
C32_Witness ==
    /\ NormalEnd
    /\ skipped >= 1
    /\ completed + failed >= 1

\* C33: in every status downloadProblem returns, each kind (templates,
\* official solution, community solutions) has 0 <= count <= total, also
\* after totals were lowered for languages without a community solution or
\* reset for an absent official solution; the same holds while the status is
\* being built.
C33_CountWithinTotal ==
    thrown = "" =>
        \A k \in DOMAIN Requested :
            /\ 0 <= downloadStatus[k].count
            /\ downloadStatus[k].count <= downloadStatus[k].total

\* A returned status whose community total was lowered and whose official
\* total was reset.
C33_Witness ==
    /\ dpc = "returned"
    /\ itemConfig.fetchSolutions
    /\ itemConfig.fetchOfficialSolution
    /\ answers.official # "solution"
    /\ Cardinality(SeenWith("no_solution")) >= 1
    /\ Cardinality(SeenWith("success")) >= 1
    /\ downloadStatus.communitySolutions.total < Len(answers.codeSnippets)
    /\ downloadStatus.officialSolution.total = 0

\* C34: the status line of an item carries the success marker if and only if
\* the same worker records the item as completed; an item complete under a
\* configuration that did not request some kind is not shown with the warning
\* marker.
C34_MarkerAgreesWithVerdict ==
    (dpc = "evaluated" /\ thrown = "") =>
        (statusIcon = "ok" <=> itemVerdict = "complete")

\* With every kind requested the marker and the verdict agree.
C34_AgreeWhenAllRequested ==
    itemConfig = AllFlags => C34_MarkerAgreesWithVerdict

\* The worker at position p takes the SESSION_EXPIRED branch of lines
\* 1436-1446; the process exits from the worker at position p (line 1448).
CaughtExpired(p) ==
    /\ wstate[p] = "running"
    /\ wstate'[p] = "writing"
    /\ verdict'[p] = "auth"

Exits(p) == wstate[p] # "exited" /\ wstate'[p] = "exited"

\* C35: a worker that observes an AuthError hands to the progress write the
\* completed set and the failed map as they are, adding the item to neither
\* (an earlier failed entry of the item stays as it was) and counting it in no
\* tally; the process exits only after that write, which is what the file
\* holds unless another write was in flight; the item is not in the completed
\* list the file gives the next run, which dispatches it again (an item that
\* raises the AuthError and that the first run did not hold as completed is in
\* the second run's list).
C35_AuthErrorLeavesItemOut ==
    /\ [][\A p \in Positions :
            /\ CaughtExpired(p) =>
                  /\ completedProblems' = completedProblems
                  /\ failedProblems' = failedProblems
                  /\ completed' = completed /\ failed' = failed
                  /\ snap'[p] = [state |-> "ok",
                                 completed |-> completedProblems,
                                 failed |-> failedProblems]
            /\ Exits(p) =>
                  /\ verdict[p] = "auth"
                  /\ wstate[p] = "writing"
                  /\ Writing(p) = {} => disk' = snap[p]
                  /\ problems[p].id \notin LoadCompleted(disk')
                  /\ problems[p].id \in DOMAIN LoadFailed(disk') =>
                        /\ problems[p].id \in loadedFailed
                        /\ LoadFailed(disk')[problems[p].id] = PriorFailure
         ]_vars
    /\ []((run = 2 /\ SetupDone) =>
             \A p \in Positions :
                 (RaisesAuthError(p) /\ problems[p].id \notin prevCompleted)
                     => p \in Range(problemsToDownload))

\* The process exited on the AuthError of an item that an earlier run had left
\* failed, after another item was recorded as failed in this run; the second
\* run has dispatched the item again.
C35_Witness ==
    /\ run = 2
    /\ pc = "await"
    /\ \E p \in Positions :
          /\ RaisesAuthError(p)
          /\ problems[p].id \in DOMAIN prevDisk.failed
          /\ prevDisk.failed[problems[p].id] = PriorFailure
          /\ Cardinality(DOMAIN prevDisk.failed) >= 2
          /\ p \in fetched

\* A run is over: the summary was printed or the process exited.
RunOver == pc \in {"done", "exited"}

\* C36: the chunk loop always terminates: whatever follows --concurrency
\* (nothing, no number, zero, a negative number) the effective concurrency is
\* a positive integer, the default 5 when the value is not one; each
\* iteration advances by at least one item, no item is dispatched twice, a run
\* that is not aborted dispatches every item of its list, and every run ends.
C36_ChunkLoopTerminates ==
    /\ [](/\ CONFIG.concurrency \in Nat \ {0}
          /\ (~concurrencyArg.given \/ ~IsPositive(parseInt(concurrencyArg.text)))
                => CONFIG.concurrency = DEFAULT_CONCURRENCY)
    /\ [][/\ (pc = "await" /\ pc' = "loop") => i' >= i + 1
          /\ (pc = "loop" /\ pc' = "await") =>
                /\ CurrentBatch # {}
                /\ CurrentBatch \cap fetched = {}
         ]_vars
    /\ [](NormalEnd => fetched = Range(problemsToDownload))
    /\ (pc = "start") ~> RunOver

\* A run given a zero or a value without a number went through its list in
\* one chunk of the default size.
C36_Witness ==
    /\ NormalEnd
    /\ Len(problemsToDownload) >= 2
    /\ \/ /\ concurrencyArg.given
          /\ parseInt(concurrencyArg.text) = Number(0)
          /\ i = DEFAULT_CONCURRENCY
       \/ /\ concurrencyArg.given
          /\ parseInt(concurrencyArg.text) = NaN
          /\ concurrencyArg.text # <<>>
          /\ i = DEFAULT_CONCURRENCY

\* The run found a progress file that does not parse.
UnreadableAtStart == run = 2 /\ prevDisk.state = "corrupt" /\ SetupDone

\* C37: a progress file that exists but cannot be read or parsed gives a run
\* an empty completed set and an empty failed map, nothing of the file's text
\* being taken over; the run dispatches every catalog item the lock filter
\* lets through, counts none as already downloaded, and the first progress
\* write that completes leaves a readable file.
C37_UnreadableFileStartsFresh ==
    UnreadableAtStart =>
        /\ loadedCompleted = {}
        /\ loadedFailed = {}
        /\ alreadyDownloaded = 0
        /\ Range(problemsToDownload) = Positions \ SkippedItems
        /\ (pc = "loop" /\ i = 0) =>
              (completedProblems = {} /\ failedProblems = NoMap)
        /\ (pc \in {"loop", "await"} /\ Returned = {}) => disk = prevDisk
        /\ (pc \in {"loop", "await", "done"} /\ Returned # {}) =>
              /\ Readable(disk)
              /\ disk.completed \subseteq completedProblems

\* A second run that found the text of a cut-short write listing a completed
\* item has written its first snapshot.
C37_Witness ==
    /\ UnreadableAtStart
    /\ prevDisk.completed # {}
    /\ Returned # {}
    /\ Readable(disk)

\* C38: a download of one item by id leaves the progress file as it found it,
\* at every step and whatever the end: the session does not verify, the item
\* is not found, is skipped as locked, fails, or is downloaded and shown; the
\* every file written lies inside the folder of the item.
C38_SingleLeavesProgressFile ==
    /\ disk = prevDisk
    /\ \A w \in tree :
          /\ Len(w) > Len(problemPath(single.q))
          /\ SubSeq(w, 1, Len(problemPath(single.q))) = problemPath(single.q)

\* An item listed as completed in the progress file was downloaded again by
\* id and its files written.
C38_Witness ==
    /\ single.pc = "done"
    /\ single.status = "shown"
    /\ tree # {}
    /\ Readable(disk)
    /\ single.q.id \in disk.completed

\* login() has returned true.
LoginReturnedTrue == login.pc = "returned" /\ login.result

\* C39: whenever login() has returned true, isLoggedIn() on the session file
\* as it then is returns true, and when the login saved a session the file
\* holds it with a non-empty session id and a non-empty CSRF token.
C39_LoginImpliesLoggedIn ==
    LoginReturnedTrue =>
        /\ isLoggedIn(sessionFile)
        /\ ~login.userData.null =>
              /\ sessionFile.state = "ok"
              /\ sessionFile.sessionId = login.userData.sessionId
              /\ sessionFile.sessionId # ""
              /\ sessionFile.sessionCSRF # ""

\* What holds of a true return: the session id of the saved user data is the
\* cookie the callback delivered, which is not empty, and a return that saved
\* nothing found a session already present.
C39_SessionIdNonEmpty ==
    LoginReturnedTrue =>
        IF login.userData.null
           THEN isLoggedIn(sessionFile)
           ELSE login.userData.sessionId = login.cookie /\ login.cookie # ""

\* the non-empty cookies of the /callback requests handled so far
CookiesAsked == {oauth.asked[k] : k \in DOMAIN oauth.asked} \ {""}

\* C40: once a /callback request carrying a non-empty cookie has been handled
\* the promise is never rejected and settles with no other value than that
\* cookie; it resolves only when the server has been closed; it settles at
\* most once; a request to another path is answered 404 and leaves the
\* server listening and the promise pending.
C40_CallbackCookieResolves ==
    /\ [](\A c \in CookiesAsked :
             /\ oauth.promise.state # "rejected"
             /\ oauth.promise.state = "resolved" => oauth.promise.value = c)
    /\ [](oauth.promise.state = "resolved" => oauth.server = "closed")
    /\ [][oauth.promise.state # "pending" => oauth.promise' = oauth.promise]_vars
    /\ [][(Len(oauth.replies') > Len(oauth.replies)
             /\ oauth.replies'[Len(oauth.replies')] = 404)
          => /\ oauth.server' = "listening"
             /\ oauth.promise' = oauth.promise
             /\ oauth.timers' = oauth.timers
             /\ oauth.timeout' = oauth.timeout]_vars

\* What holds: the first /callback request decides. Unless a request ends
\* the process, the promise in the end settles, once, as that request says
\* (resolved with its cookie, or rejected for want of one) and only after the
\* server has been closed; the 5-minute timeout rejects only a promise no
\* /callback request came for.
C40_FirstCallbackDecides ==
    /\ [](oauth.asked # <<>> =>
             /\ oauth.timeout # "armed"
             /\ oauth.promise.state # "pending" =>
                   /\ oauth.server = "closed"
                   /\ oauth.promise = CloseCallback(Pending, oauth.asked[1]))
    /\ (oauth.asked # <<>>) ~>
          (oauth.promise.state # "pending" \/ oauth.server = "crashed")
    /\ <>(oauth.promise.state # "pending" \/ oauth.server = "crashed")
    /\ [][oauth.promise.state # "pending" => oauth.promise' = oauth.promise]_vars

====
